---- MODULE Spec2Model ----
(***************************************************************************)
(* A model of the DAgger rollout / training-loop coordinator of            *)
(* src/src/spot/dagger.py.                                                 *)
(*                                                                         *)
(* Three execution contexts are modelled:                                  *)
(*   - the asyncio event-loop thread, which runs the coroutines            *)
(*     (throttled_async_run.task, train_step, rollout_on_src) one turn at  *)
(*     a time; a turn runs from one suspension point to the next;          *)
(*   - the worker pool (cpu_executor), which runs src_to_batch,            *)
(*     type_check_src_in_project and get_typechecked_src on copies of      *)
(*     their arguments;                                                    *)
(*   - the model executor, ThreadPoolExecutor(1): a FIFO queue of work     *)
(*     items and ModelWorkers worker threads running predict_on_batch,     *)
(*     _process_batch and _empty_buffer.                                   *)
(* The progress bars and the running averages are display only and are not *)
(* part of the state.                                                      *)
(***************************************************************************)
EXTENDS Integers, Sequences, FiniteSets, TLC

---------------------------------------------------------------------------
(* Bounds of the model. *)
NumFiles == 2
MaxLabels == 2
MaxConcurrency == 2
MaxBufferSize == 2
MaxAccumSteps == 2
MaxSavesPerEpoch == 2
MaxPushes == 4
MaxEmptyCalls == 2

(* random.random() is drawn from {0/RandomSteps .. (RandomSteps-1)/RandomSteps},
   and expert_rate from {0/RandomSteps .. RandomSteps/RandomSteps}. *)
RandomSteps == 2

(* ThreadPoolExecutor(1) as model_executor. *)
ModelWorkersMutantTwo == 1 + 1

ModelWorkers == 1

Files == 1..NumFiles
Main == 0
Callers == Files \cup {Main}
Workers == 1..ModelWorkers
RandomDraws == 0..(RandomSteps - 1)
ExpertRates == 0..RandomSteps

(* PythonType values: the types the model-inference collaborator may return
   and the ground truth labels are drawn from. *)
PyTypes == {"int", "str"}

VARIABLES
    cfg,            \* the arguments of the run (DAggerArgs, expert_rate, callback, entry point)
    mainPc,         \* position of train_on_data / the driver coroutine
    taskPc,         \* position of each throttled_async_run.task coroutine
    sem,            \* value of the asyncio.Semaphore
    waiters,        \* FIFO of tasks waiting on the semaphore
    rs,             \* per file: the locals of rollout_on_src and train_step
    fut,            \* per coroutine: the executor future it awaits
    model_queue,    \* work queue of model_executor
    mrun,           \* per model-executor worker thread: the running work item
    replay_buffer,  \* state.replay_buffer (leftmost element first)
    grad_counter,   \* state.grad_counter
    save_counter,   \* state.save_counter
    params,         \* number of optimizer steps applied to the model parameters
    n_saves,        \* number of checkpoints saved
    log_lock,       \* log_lock: "free", or the context holding it
    labels_counter, \* labels_counter of train_on_data
    pushed,         \* history: batches in the order of their appendleft
    trained,        \* history: the _train_on_batch calls, in order
    updates,        \* history: the _update_model calls, in order
    done_order,     \* history: the files in the order in which their tasks returned
    results,        \* the list throttled_async_run returned (<<>> before it returns)
    chunking,       \* chunk_srcs: its arguments, its locals and its position
    building,       \* dict_to_tokenized_src: its argument, its locals and its position
    decoding,       \* output_ids_as_types: its arguments, its locals and its position
    patching,       \* the feedback pass: its arguments, its locals and its position
    loading,        \* SrcDataset.from_repos: its arguments, its locals and its position
    eval_result,    \* the DAggerEvalResult of eval_on_data
    trace           \* history: per file, the rollout events in order

vars == <<cfg, mainPc, taskPc, sem, waiters, rs, fut, model_queue, mrun,
          replay_buffer, grad_counter, save_counter, params, n_saves, log_lock,
          labels_counter, pushed, trained, updates, done_order, results, chunking,
          building, decoding, patching, loading, eval_result,
          trace>>

---------------------------------------------------------------------------
(* Values *)

EmptyDict == [k \in {} |-> "int"]

DictSet(d, k, v) == [x \in (DOMAIN d) \cup {k} |-> IF x = k THEN v ELSE d[x]]

NoBatch == [file |-> 0]

(* chunk_srcs is not running. *)
NoChunking == [pc |-> "none"]

(* dict_to_tokenized_src is not running. *)
NoBuilding == [pc |-> "none"]

(* output_ids_as_types is not running. *)
NoDecoding == [pc |-> "none"]

(* No feedback pass is running. *)
NoPatching == [pc |-> "none"]

(* from_repos is not running. *)
NoLoading == [pc |-> "none"]

(* DAggerEvalResult([], []) *)
NoEvalResult == [final_srcs |-> <<>>, final_preds |-> <<>>]

NoFuture == [st |-> "none", kind |-> "none"]

Idle == [op |-> "idle", caller |-> Main, batch |-> NoBatch, pc |-> "idle", ret |-> "none"]

(* src.types: the ground-truth label of site t of file f. *)
Label(f, t) == IF (f + t) % 2 = 0 THEN "int" ELSE "str"

(* The TokenizedSrc handed to rollout_on_src. *)
OriginalSrc(f) == [file |-> f, prev_types |-> EmptyDict, errors |-> <<>>]

InitRollout(f) ==
    [t |-> 0, new_src |-> OriginalSrc(f), type_assignment |-> EmptyDict,
     batch_seq |-> <<>>, src_seq |-> <<>>, used_expert |-> <<>>,
     cb_future |-> "none", pb_i |-> 0]

SumLabels(n) ==
    LET RECURSIVE Sum(_)
        Sum(k) == IF k = 0 THEN 0 ELSE n[k] + Sum(k - 1)
    IN Sum(NumFiles)

---------------------------------------------------------------------------
(* The model executor: work items run to completion, one step at a time. *)

(* ThreadPoolExecutor worker: set the future's result. *)
Deliver(caller, st, res) ==
    fut' = [fut EXCEPT ![caller] = [st |-> st, kind |-> @.kind, res |-> res]]

(* A worker thread takes the next work item off the queue. *)
MStart(w) ==
    /\ mrun[w].op = "idle"
    /\ model_queue # <<>>
    /\ LET item == Head(model_queue) IN
        /\ mrun' = [mrun EXCEPT ![w] =
                [op |-> item.op, caller |-> item.caller, batch |-> item.batch,
                 pc |-> CASE item.op = "predict" -> "predict"
                          [] item.op = "process" -> "append"
                          [] OTHER -> "drain",
                 ret |-> "none"]]
        /\ fut' = [fut EXCEPT ![item.caller].st = "running"]
    /\ model_queue' = Tail(model_queue)
    /\ UNCHANGED <<cfg, mainPc, taskPc, sem, waiters, rs, replay_buffer, grad_counter,
                   save_counter, params, n_saves, log_lock, labels_counter, pushed,
                   trained, trace,
                   updates, done_order, results, chunking, building, decoding,
                   patching, loading, eval_result>>

(* mr.predict_on_batch(batch): preds[0][0] is any type. *)
MPredict(w) ==
    /\ mrun[w].pc = "predict"
    /\ \E ty \in PyTypes : Deliver(mrun[w].caller, "done", ty)
    /\ trace' = [trace EXCEPT ![mrun[w].caller] =
                    Append(@, <<"predict", mrun[w].batch.label>>)]
    /\ mrun' = [mrun EXCEPT ![w] = Idle]
    /\ UNCHANGED <<cfg, mainPc, taskPc, sem, waiters, rs, model_queue, replay_buffer,
                   grad_counter, save_counter, params, n_saves, log_lock,
                   labels_counter, pushed, trained,
                   updates, done_order, results, chunking, building, decoding,
                   patching, loading, eval_result>>

(* state.replay_buffer.appendleft(batch) *)
AppendLeft(buf, b) == <<b>> \o buf

(* state.replay_buffer.pop(): the rightmost element and the rest. *)
PopMutantLeft(buf) == [batch |-> buf[1], rest |-> Tail(buf)]

Pop(buf) == [batch |-> buf[Len(buf)], rest |-> SubSeq(buf, 1, Len(buf) - 1)]

(* len(state.replay_buffer) > buffer_size *)
OverflowMutantOffByOne(buf, size) == Len(buf) > size + 1

Overflow(buf, size) == Len(buf) > size

(* _process_batch, line 254 *)
MAppend(w) ==
    /\ mrun[w].pc = "append"
    /\ replay_buffer' = AppendLeft(replay_buffer, mrun[w].batch)
    /\ pushed' = Append(pushed, mrun[w].batch)
    /\ mrun' = [mrun EXCEPT ![w].pc = "check"]
    /\ UNCHANGED <<cfg, mainPc, taskPc, sem, waiters, rs, fut, model_queue, grad_counter,
                   save_counter, params, n_saves, log_lock, labels_counter, trained,
                   trace,
                   updates, done_order, results, chunking, building, decoding,
                   patching, loading, eval_result>>

(* _process_batch, lines 255-258: on overflow pop the batch to train on, else
   return.  A failed assert_eq raises into the future. *)
MCheck(w) ==
    /\ mrun[w].pc = "check"
    /\ IF Overflow(replay_buffer, cfg.replay_buffer_size)
       THEN IF Len(replay_buffer) = cfg.replay_buffer_size + 1
            THEN /\ replay_buffer' = Pop(replay_buffer).rest
                 /\ mrun' = [mrun EXCEPT ![w].pc = "train",
                                         ![w].batch = Pop(replay_buffer).batch,
                                         ![w].ret = "finish"]
                 /\ UNCHANGED fut
            ELSE /\ Deliver(mrun[w].caller, "raised", "AssertionError")
                 /\ mrun' = [mrun EXCEPT ![w] = Idle]
                 /\ UNCHANGED replay_buffer
       ELSE /\ Deliver(mrun[w].caller, "done", "None")
            /\ mrun' = [mrun EXCEPT ![w] = Idle]
            /\ UNCHANGED replay_buffer
    /\ UNCHANGED <<cfg, mainPc, taskPc, sem, waiters, rs, model_queue, grad_counter,
                   save_counter, params, n_saves, log_lock, labels_counter, pushed,
                   trained, trace,
                   updates, done_order, results, chunking, building, decoding,
                   patching, loading, eval_result>>

(* Where a worker goes when _train_on_batch / _update_model returns to the
   function that called it: _process_batch returns, _empty_buffer loops. *)
Return(w) ==
    IF mrun[w].ret = "drain"
    THEN /\ mrun' = [mrun EXCEPT ![w].pc = "drain", ![w].batch = NoBatch]
         /\ UNCHANGED fut
    ELSE /\ mrun' = [mrun EXCEPT ![w] = Idle]
         /\ Deliver(mrun[w].caller, "done", "None")

(* state.grad_counter >= accum_steps *)
AccumFullMutantGreater(counter, steps) == counter > steps

AccumFull(counter, steps) == counter >= steps

(* _train_on_batch, lines 281-295: forward, backward, grad_counter += 1, and
   the decision to update. *)
MTrain(w) ==
    /\ mrun[w].pc = "train"
    /\ trained' = Append(trained,
            [batch |-> mrun[w].batch, op |-> mrun[w].op, n_pushed |-> Len(pushed)])
    /\ grad_counter' = grad_counter + 1
    /\ IF AccumFull(grad_counter + 1, cfg.grad_accum_steps)
       THEN mrun' = [mrun EXCEPT ![w].pc = "update"] /\ UNCHANGED fut
       ELSE Return(w)
    /\ UNCHANGED <<cfg, mainPc, taskPc, sem, waiters, rs, model_queue, replay_buffer,
                   save_counter, params, n_saves, log_lock, labels_counter, pushed,
                   trace,
                   updates, done_order, results, chunking, building, decoding,
                   patching, loading, eval_result>>

(* _update_model, lines 298-301: clip, optimizer.step(), zero_grad(). *)
MUpdate(w) ==
    /\ mrun[w].pc = "update"
    /\ params' = params + 1
    /\ updates' = Append(updates,
            [at |-> Len(trained), op |-> mrun[w].op, flush |-> mrun[w].batch = NoBatch])
    /\ mrun' = [mrun EXCEPT ![w].pc = "log"]
    /\ UNCHANGED <<cfg, mainPc, taskPc, sem, waiters, rs, fut, model_queue, replay_buffer,
                   grad_counter, save_counter, n_saves, log_lock, labels_counter,
                   pushed, trained, trace, done_order, results, chunking, building, decoding,
                   patching, loading, eval_result>>

(* state.log_fn called without the lock. *)
MLogAcquireMutantNoLock(w) ==
    /\ mrun[w].pc = "log"
    /\ log_lock' = "model"
    /\ mrun' = [mrun EXCEPT ![w].pc = "logging"]
    /\ UNCHANGED <<cfg, mainPc, taskPc, sem, waiters, rs, fut, model_queue, replay_buffer,
                   grad_counter, save_counter, params, n_saves, labels_counter, pushed,
                   trained, updates, trace, done_order, results, chunking, building, decoding,
                   patching, loading, eval_result>>

(* _update_model, line 304: state.log_fn is log_fn_locked; enter `with log_lock`. *)
MLogAcquire(w) ==
    /\ mrun[w].pc = "log"
    /\ log_lock = "free"
    /\ log_lock' = "model"
    /\ mrun' = [mrun EXCEPT ![w].pc = "logging"]
    /\ UNCHANGED <<cfg, mainPc, taskPc, sem, waiters, rs, fut, model_queue, replay_buffer,
                   grad_counter, save_counter, params, n_saves, labels_counter, pushed,
                   trained, trace,
                   updates, done_order, results, chunking, building, decoding,
                   patching, loading, eval_result>>

(* log_fn(t, d) returns and the `with log_lock` block is left. *)
MLogRelease(w) ==
    /\ mrun[w].pc = "logging"
    /\ log_lock' = "free"
    /\ mrun' = [mrun EXCEPT ![w].pc = "save"]
    /\ UNCHANGED <<cfg, mainPc, taskPc, sem, waiters, rs, fut, model_queue, replay_buffer,
                   grad_counter, save_counter, params, n_saves, labels_counter, pushed,
                   trained, trace,
                   updates, done_order, results, chunking, building, decoding,
                   patching, loading, eval_result>>

(* state.save_counter -= state.save_every *)
AfterSaveMutantReset(counter, every) == 0

AfterSave(counter, every) == counter - every

(* _update_model, lines 312-317 *)
MSave(w) ==
    /\ mrun[w].pc = "save"
    /\ LET sc == save_counter + grad_counter IN
        IF sc >= cfg.save_every
        THEN save_counter' = AfterSave(sc, cfg.save_every) /\ n_saves' = n_saves + 1
        ELSE save_counter' = sc /\ UNCHANGED n_saves
    /\ grad_counter' = 0
    /\ Return(w)
    /\ UNCHANGED <<cfg, mainPc, taskPc, sem, waiters, rs, model_queue, replay_buffer,
                   params, log_lock, labels_counter, pushed, trained, trace,
                   updates, done_order, results, chunking, building, decoding,
                   patching, loading, eval_result>>

(* state.grad_counter > 0 *)
UnflushedMutantAlways(counter) == TRUE

Unflushed(counter) == counter > 0

(* _empty_buffer, lines 265-269: one evaluation of the loop condition, and
   after the loop the final update. *)
MDrain(w) ==
    /\ mrun[w].pc = "drain"
    /\ IF replay_buffer # <<>>
       THEN /\ replay_buffer' = Pop(replay_buffer).rest
            /\ mrun' = [mrun EXCEPT ![w].pc = "train",
                                    ![w].batch = Pop(replay_buffer).batch,
                                    ![w].ret = "drain"]
            /\ UNCHANGED fut
       ELSE /\ UNCHANGED replay_buffer
            /\ IF Unflushed(grad_counter)
               THEN mrun' = [mrun EXCEPT ![w].pc = "update", ![w].ret = "finish"]
                    /\ UNCHANGED fut
               ELSE /\ mrun' = [mrun EXCEPT ![w] = Idle]
                    /\ Deliver(mrun[w].caller, "done", "None")
    /\ UNCHANGED <<cfg, mainPc, taskPc, sem, waiters, rs, model_queue, grad_counter,
                   save_counter, params, n_saves, log_lock, labels_counter, pushed,
                   trained, trace,
                   updates, done_order, results, chunking, building, decoding,
                   patching, loading, eval_result>>

(* The steps of _process_batch, _empty_buffer, _train_on_batch, _update_model. *)
TrainingStep(w) ==
    \/ MAppend(w)
    \/ MCheck(w)
    \/ MTrain(w)
    \/ MUpdate(w)
    \/ MLogAcquire(w)
    \/ MLogRelease(w)
    \/ MSave(w)
    \/ MDrain(w)

---------------------------------------------------------------------------
(* A driver that calls _process_batch and _empty_buffer one after the other
   on one DAggerTrainingState, in any order. *)

ModelIdle == model_queue = <<>> /\ \A w \in Workers : mrun[w].op = "idle"

(* The calls the driver has made so far, as recorded in trace[Main]. *)
CallsOf(op) == {i \in 1..Len(trace[Main]) : trace[Main][i][1] = op}

CallProcessBatch ==
    /\ cfg.entry = "buffer"
    /\ ModelIdle
    /\ Len(pushed) < MaxPushes
    /\ model_queue' = <<[op |-> "process", caller |-> Main,
                         batch |-> [file |-> 0, label |-> Len(pushed)]]>>
    /\ fut' = [fut EXCEPT ![Main] = [st |-> "pending", kind |-> "process"]]
    /\ trace' = [trace EXCEPT ![Main] = Append(@, <<"process", Len(pushed)>>)]
    /\ UNCHANGED <<cfg, mainPc, taskPc, sem, waiters, rs, mrun, replay_buffer,
                   grad_counter, save_counter, params, n_saves, log_lock,
                   labels_counter, pushed, trained,
                   updates, done_order, results, chunking, building, decoding,
                   patching, loading, eval_result>>

CallEmptyBuffer ==
    /\ cfg.entry = "buffer"
    /\ ModelIdle
    /\ Cardinality(CallsOf("empty")) < MaxEmptyCalls
    /\ model_queue' = <<[op |-> "empty", caller |-> Main, batch |-> NoBatch]>>
    /\ fut' = [fut EXCEPT ![Main] = [st |-> "pending", kind |-> "empty"]]
    /\ trace' = [trace EXCEPT ![Main] = Append(@, <<"empty", Len(pushed)>>)]
    /\ UNCHANGED <<cfg, mainPc, taskPc, sem, waiters, rs, mrun, replay_buffer,
                   grad_counter, save_counter, params, n_saves, log_lock,
                   labels_counter, pushed, trained,
                   updates, done_order, results, chunking, building, decoding,
                   patching, loading, eval_result>>

---------------------------------------------------------------------------
(* The event-loop thread.  A turn of a coroutine is computed as a function on
   the record of the variables a turn may write, and committed at the end. *)

Loop ==
    [mainPc |-> mainPc, taskPc |-> taskPc, sem |-> sem, waiters |-> waiters,
     rs |-> rs, fut |-> fut, model_queue |-> model_queue, log_lock |-> log_lock,
     labels_counter |-> labels_counter, trace |-> trace,
     replay_buffer |-> replay_buffer, pushed |-> pushed,
     done_order |-> done_order, results |-> results, eval_result |-> eval_result]

Commit(S) ==
    /\ mainPc' = S.mainPc
    /\ taskPc' = S.taskPc
    /\ sem' = S.sem
    /\ waiters' = S.waiters
    /\ rs' = S.rs
    /\ fut' = S.fut
    /\ model_queue' = S.model_queue
    /\ log_lock' = S.log_lock
    /\ labels_counter' = S.labels_counter
    /\ trace' = S.trace
    /\ replay_buffer' = S.replay_buffer
    /\ pushed' = S.pushed
    /\ done_order' = S.done_order
    /\ results' = S.results
    /\ eval_result' = S.eval_result
    /\ UNCHANGED <<cfg, mrun, grad_counter, save_counter, params, n_saves, trained,
                   updates, chunking, building, decoding, patching, loading>>

(* The event-loop thread is inside log_fn_locked (possibly blocked on log_lock):
   no other coroutine runs meanwhile. *)
LoopBlocked == \E g \in Files : taskPc[g] \in {"log_acquire", "logging"}

(* gather() schedules the tasks in order; their first turns precede every
   resumption of a coroutine by an executor future. *)
AllStarted == \A g \in Files : taskPc[g] # "created"

LoopRuns == mainPc = "gather" /\ ~LoopBlocked

CanResume(f, pc) ==
    /\ LoopRuns
    /\ AllStarted
    /\ taskPc[f] = pc
    /\ fut[f].st \in {"done", "raised"}

(* await eloop.run_in_executor(cpu_executor, fn, *args): the arguments are
   pickled for the worker process. *)
RunInCpuExecutor(S, f, kind, arg) ==
    [S EXCEPT !.fut[f] = [st |-> "pending", kind |-> kind, arg |-> arg],
              !.taskPc[f] = kind]

(* await eloop.run_in_executor(model_executor, fn, *args) *)
RunInModelExecutor(S, c, op, batch) ==
    [S EXCEPT !.fut[c] = [st |-> "pending", kind |-> op],
              !.model_queue = Append(@, [op |-> op, caller |-> c, batch |-> batch])]

(* asyncio.Semaphore.release(): increment and wake the first waiter. *)
Release(S) ==
    IF S.waiters = <<>>
    THEN [S EXCEPT !.sem = @ + 1]
    ELSE [S EXCEPT !.sem = @ + 1,
                   !.waiters = Tail(@),
                   !.taskPc[Head(S.waiters)] = "woken"]

(* throttled_async_run.task: f(x) returned, `async with sem` is left.
   train_step returns nothing: its DAggerRunResult is dropped. *)
TaskEnd(S, f) ==
    Release([S EXCEPT !.taskPc[f] = "done",
                      !.done_order = Append(@, f),
                      !.rs[f] = IF cfg.entry = "train" THEN InitRollout(f) ELSE @])

(* The task's f(x) raised: `async with sem` is left with the exception. *)
TaskFail(S, f) == Release([S EXCEPT !.taskPc[f] = "failed"])

(* train_step, lines 196-202: offload _process_batch for the next batch of
   r.batch_seq, or return when there is none left. *)
ProcessNextMutantInline(S, f) ==
    LET R == S.rs[f] IN
    IF R.pb_i < Len(R.batch_seq)
    THEN [S EXCEPT !.rs[f].pb_i = @ + 1,
                   !.replay_buffer = AppendLeft(@, R.batch_seq[R.pb_i + 1]),
                   !.pushed = Append(@, R.batch_seq[R.pb_i + 1]),
                   !.fut[f] = [st |-> "done", kind |-> "process", res |-> "None"],
                   !.taskPc[f] = "process"]
    ELSE TaskEnd(S, f)

ProcessNext(S, f) ==
    LET R == S.rs[f] IN
    IF R.pb_i < Len(R.batch_seq)
    THEN LET S1 == [S EXCEPT !.rs[f].pb_i = @ + 1, !.taskPc[f] = "process"]
         IN RunInModelExecutor(S1, f, "process", R.batch_seq[R.pb_i + 1])
    ELSE TaskEnd(S, f)

(* eval_step, lines 239-241: the two appends to the DAggerEvalResult. *)
EvalAppendMutantPredsFirst(R, src, preds) ==
    [final_srcs |-> Append(R.final_srcs, src), final_preds |-> <<preds>> \o R.final_preds]

EvalAppend(R, src, preds) ==
    [final_srcs |-> Append(R.final_srcs, src), final_preds |-> Append(R.final_preds, preds)]

(* eval_step, lines 239-241, after rollout_on_src returned: r.src_seq[-1]
   raises IndexError when the file has no label. *)
EvalStepEnd(S, f) ==
    LET R == S.rs[f] IN
    IF Len(R.src_seq) = 0
    THEN TaskFail(S, f)
    ELSE TaskEnd([S EXCEPT !.eval_result =
                    EvalAppend(@, R.src_seq[Len(R.src_seq)],
                               [i \in 1..cfg.n_labels[f] |-> R.type_assignment[i - 1]])], f)

(* rollout_on_src returned to its caller. *)
AfterRollout(S, f) ==
    IF cfg.entry = "eval"
    THEN EvalStepEnd(S, f)
    ELSE IF cfg.entry = "train"
    THEN (* train_step, lines 180-193: accuracy, labels_counter, state.log_fn.
            From here on train_step reads only r.batch_seq. *)
         [S EXCEPT !.labels_counter = @ + cfg.n_labels[f],
                   !.rs[f] = [InitRollout(f) EXCEPT !.batch_seq = S.rs[f].batch_seq],
                   !.taskPc[f] = "log_acquire"]
    ELSE TaskEnd(S, f)

(* random.random() < expert_rate *)
UseExpertMutantInverted(r, rate) == r >= rate

UseExpert(r, rate) == r < rate

(* The source src_to_batch is given: new_src. *)
BatchSourceMutantOriginal(S, f) == OriginalSrc(f)

BatchSource(S, f) == S.rs[f].new_src

(* rollout_on_src, lines 86-92: the loop header and the offload of
   src_to_batch; or the return after the last label. *)
LoopHead(S, f, r) ==
    LET R == S.rs[f] IN
    IF R.t = cfg.n_labels[f]
    THEN AfterRollout(S, f)
    ELSE LET S1 == [S EXCEPT !.rs[f].used_expert =
                                Append(@, UseExpert(r, cfg.expert_rate))]
         IN RunInCpuExecutor(S1, f, "build", [src |-> BatchSource(S, f), t |-> R.t])

(* `async with sem`: acquire without waiting when the value is positive. *)
SemFreeMutantAlways(S) == TRUE

SemFree(S) == S.sem > 0

(* First turn of throttled_async_run.task(x). *)
TaskStart(f) ==
    /\ LoopRuns
    /\ taskPc[f] = "created"
    /\ \A g \in Files : g < f => taskPc[g] # "created"
    /\ IF SemFree(Loop)
       THEN \E r \in RandomDraws :
                Commit(LoopHead([Loop EXCEPT !.sem = @ - 1, !.taskPc[f] = "running"], f, r))
       ELSE Commit([Loop EXCEPT !.waiters = Append(@, f), !.taskPc[f] = "sem_wait"])

(* A waiter woken by release() re-checks the value and takes the slot. *)
TaskWoken(f) ==
    /\ LoopRuns
    /\ AllStarted
    /\ taskPc[f] = "woken"
    /\ IF SemFree(Loop)
       THEN \E r \in RandomDraws :
                Commit(LoopHead([Loop EXCEPT !.sem = @ - 1, !.taskPc[f] = "running"], f, r))
       ELSE Commit([Loop EXCEPT !.waiters = Append(@, f), !.taskPc[f] = "sem_wait"])

(* The source type_check_src_in_project and get_typechecked_src are given
   (lines 112 and 119): src, the argument of rollout_on_src. *)
CheckedSrcMutantNewSrc(S, f) == S.rs[f].new_src

CheckedSrc(S, f) == OriginalSrc(f)

(* rollout_on_src, lines 103-116: create the callback's coroutine object and
   offload the type check of the original src under the current assignment. *)
CallbackAndCheck(S, f) ==
    LET S1 == [S EXCEPT !.rs[f].cb_future =
                            IF cfg.has_callback THEN "created" ELSE "none"]
    IN RunInCpuExecutor(S1, f, "check",
            [src |-> CheckedSrc(S, f), assignment |-> S.rs[f].type_assignment,
             t |-> S.rs[f].t])

(* `if use_expert:` (line 94): the flag appended last to used_expert. *)
ExpertBranchMutantNever(R) == FALSE

ExpertBranch(R) == R.used_expert[Len(R.used_expert)]

(* rollout_on_src, lines 93-101, after src_to_batch returned. *)
ResumeBuild(f) ==
    /\ CanResume(f, "build")
    /\ LET R == rs[f]
           S1 == [Loop EXCEPT !.rs[f].batch_seq = Append(@, fut[f].res)]
       IN IF ExpertBranch(R)
          THEN Commit(CallbackAndCheck(
                    [S1 EXCEPT !.rs[f].type_assignment = DictSet(@, R.t, Label(f, R.t)),
                               !.trace[f] = Append(@, <<"reveal", R.t>>)], f))
          ELSE Commit(RunInModelExecutor([S1 EXCEPT !.taskPc[f] = "predict"],
                                         f, "predict", fut[f].res))

(* rollout_on_src, line 101, after predict_on_batch returned. *)
ResumePredict(f) ==
    /\ CanResume(f, "predict")
    /\ Commit(CallbackAndCheck(
            [Loop EXCEPT !.rs[f].type_assignment = DictSet(@, rs[f].t, fut[f].res)], f))

(* rollout_on_src, lines 117-120, after type_check_src_in_project returned. *)
ResumeCheck(f) ==
    /\ CanResume(f, "check")
    /\ Commit(RunInCpuExecutor(Loop, f, "regen",
            [src |-> CheckedSrc(Loop, f), assignment |-> rs[f].type_assignment,
             check_r |-> fut[f].res, t |-> rs[f].t]))

(* `await cb_future`: the coroutine object starts running here; its body
   (a progress-bar update) has no suspension point. *)
AwaitCallback(S, f) ==
    IF S.rs[f].cb_future = "created"
    THEN [S EXCEPT !.rs[f].cb_future = "done",
                   !.trace[f] = Append(@, <<"callback", S.rs[f].t>>)]
    ELSE S

(* rollout_on_src, lines 118-124 and the next loop header, after
   get_typechecked_src returned. *)
ResumeRegen(f) ==
    /\ CanResume(f, "regen")
    /\ LET S1 == [Loop EXCEPT !.rs[f].new_src = fut[f].res,
                              !.rs[f].src_seq = Append(@, fut[f].res)]
           S2 == AwaitCallback(S1, f)
           S3 == [S2 EXCEPT !.rs[f].t = @ + 1]
       IN \E r \in RandomDraws : Commit(LoopHead(S3, f, r))

(* train_step, line 190: log_fn_locked enters `with log_lock`. *)
LogAcquire(f) ==
    /\ mainPc = "gather"
    /\ taskPc[f] = "log_acquire"
    /\ log_lock = "free"
    /\ Commit([Loop EXCEPT !.log_lock = "loop", !.taskPc[f] = "logging"])

(* log_fn returns, the lock is released, and train_step goes on to its
   batches. *)
LogRelease(f) ==
    /\ mainPc = "gather"
    /\ taskPc[f] = "logging"
    /\ Commit(ProcessNext([Loop EXCEPT !.log_lock = "free"], f))

(* train_step, lines 196-202, after _process_batch returned or raised. *)
ResumeProcess(f) ==
    /\ CanResume(f, "process")
    /\ IF fut[f].st = "raised"
       THEN Commit(TaskFail(Loop, f))
       ELSE Commit(ProcessNext(Loop, f))

(* gather() is done: all tasks returned, or one raised. *)
GatherDone ==
    IF \E f \in Files : taskPc[f] = "failed"
    THEN TRUE
    ELSE \A f \in Files : taskPc[f] = "done"

(* What task(x) returns: the DAggerRunResult of rollout_on_src, or the None
   of train_step. *)
TaskResult(S, f) ==
    IF cfg.entry = "train"
    THEN "None"
    ELSE [type_assignment |-> S.rs[f].type_assignment,
          batch_seq |-> S.rs[f].batch_seq,
          src_seq |-> S.rs[f].src_seq,
          used_expert |-> S.rs[f].used_expert]

(* asyncio.gather of the tasks: the results in the order of the tasks given. *)
GatherResultsMutantCompletionOrder(S) ==
    [i \in 1..Len(S.done_order) |-> TaskResult(S, S.done_order[i])]

GatherResults(S) == [i \in 1..NumFiles |-> TaskResult(S, i)]

(* train_on_data, lines 204-210, after throttled_async_run. *)
MainResumeMutantNoDrain ==
    /\ LoopRuns
    /\ GatherDone
    /\ Commit([Loop EXCEPT !.mainPc = "returned"])

MainResume ==
    /\ LoopRuns
    /\ GatherDone
    /\ IF \E f \in Files : taskPc[f] = "failed"
       THEN Commit([Loop EXCEPT !.mainPc = "raised"])
       ELSE LET S1 == [Loop EXCEPT !.results = GatherResults(Loop)] IN
            IF cfg.entry = "train"
            THEN Commit(RunInModelExecutor([S1 EXCEPT !.mainPc = "empty"],
                                           Main, "empty", NoBatch))
            ELSE Commit([S1 EXCEPT !.mainPc = "returned"])

(* train_on_data returns after _empty_buffer. *)
MainReturn ==
    /\ mainPc = "empty"
    /\ fut[Main].st \in {"done", "raised"}
    /\ Commit([Loop EXCEPT !.mainPc = IF fut[Main].st = "done" THEN "returned"
                                      ELSE "raised"])

---------------------------------------------------------------------------
(* The worker pool: each task works on the copies in fut[f].arg. *)

CpuDone(f, res, event) ==
    /\ fut' = [fut EXCEPT ![f] = [st |-> "done", kind |-> @.kind, res |-> res]]
    /\ trace' = [trace EXCEPT ![f] = Append(@, event)]
    /\ UNCHANGED <<cfg, mainPc, taskPc, sem, waiters, rs, model_queue, mrun,
                   replay_buffer, grad_counter, save_counter, params, n_saves,
                   log_lock, labels_counter, pushed, trained,
                   updates, done_order, results, chunking, building, decoding,
                   patching, loading, eval_result>>

(* src_to_batch(src, t, ctx_args): the single-label chunk around label t.  Its
   tokens are represented by the file, the label and the number of earlier
   predictions inlined in the source it was cut from. *)
src_to_batchMutantFirstLabel(src, t) ==
    [file |-> src.file, label |-> 0, n_prev |-> Cardinality(DOMAIN src.prev_types),
     n_labels |-> 1]

src_to_batch(src, t) ==
    [file |-> src.file, label |-> t, n_prev |-> Cardinality(DOMAIN src.prev_types),
     n_labels |-> 1]

CpuBuild(f) ==
    /\ fut[f].st = "pending"
    /\ fut[f].kind = "build"
    /\ CpuDone(f, src_to_batch(fut[f].arg.src, fut[f].arg.t), <<"build", fut[f].arg.t>>)

(* What the type checker may answer: an opaque failure string, or the
   diagnostics. *)
CheckOutcomes ==
    {[failed |-> TRUE, errors |-> <<"mypy failed">>],
     [failed |-> FALSE, errors |-> <<>>],
     [failed |-> FALSE, errors |-> <<"error">>]}

(* type_check_src_in_project(src, assignment, repo_root, pre_fdbks) *)
CpuCheck(f) ==
    /\ fut[f].st = "pending"
    /\ fut[f].kind = "check"
    /\ \E o \in CheckOutcomes :
        CpuDone(f, [failed |-> o.failed, errors |-> o.errors,
                    current_code |-> fut[f].arg.assignment],
                <<"check", fut[f].arg.t>>)

(* get_typechecked_src(src, assignment, check_r) *)
get_typechecked_src(src, assignment, check_r) ==
    [file |-> src.file,
     prev_types |-> assignment,
     errors |-> IF check_r.failed THEN <<>> ELSE check_r.errors]

CpuRegen(f) ==
    /\ fut[f].st = "pending"
    /\ fut[f].kind = "regen"
    /\ CpuDone(f, get_typechecked_src(fut[f].arg.src, fut[f].arg.assignment,
                                      fut[f].arg.check_r),
               <<"regen", fut[f].arg.t>>)

---------------------------------------------------------------------------
(* Initial states *)

InitState ==
    /\ mainPc = "gather"
    /\ taskPc = [f \in Files |-> "created"]
    /\ sem = cfg.concurrency
    /\ waiters = <<>>
    /\ rs = [f \in Files |-> InitRollout(f)]
    /\ fut = [c \in Callers |-> NoFuture]
    /\ model_queue = <<>>
    /\ mrun = [w \in Workers |-> Idle]
    /\ replay_buffer = <<>>
    /\ grad_counter = 0
    /\ save_counter = 0
    /\ params = 0
    /\ n_saves = 0
    /\ log_lock = "free"
    /\ labels_counter = 0
    /\ pushed = <<>>
    /\ trained = <<>>
    /\ updates = <<>>
    /\ done_order = <<>>
    /\ results = <<>>
    /\ eval_result = NoEvalResult
    /\ trace = [c \in Callers |-> <<>>]

(* DAggerTrainingState of the driver: any replay_buffer_size >= 0, any
   grad_accum_steps >= 1, any save_every >= 0. *)
InitBuffer ==
    /\ cfg \in [entry : {"buffer"},
                n_labels : {[f \in Files |-> 0]},
                concurrency : {1},
                replay_buffer_size : 0..MaxBufferSize,
                grad_accum_steps : 1..MaxAccumSteps,
                save_every : 0..MaxSavesPerEpoch,
                saves_per_epoch : {1},
                expert_rate : {0},
                has_callback : {FALSE}]
    /\ InitState
    /\ patching = NoPatching
    /\ loading = NoLoading
    /\ chunking = NoChunking
    /\ building = NoBuilding
    /\ decoding = NoDecoding

NextBuffer ==
    \/ CallProcessBatch
    \/ CallEmptyBuffer
    \/ \E w \in Workers : MStart(w)
    \/ \E w \in Workers : TrainingStep(w)

SpecBuffer == InitBuffer /\ [][NextBuffer]_vars

---------------------------------------------------------------------------
(* Properties of the replay buffer (SpecBuffer) *)

InProcessBatchBeforeEviction == \E w \in Workers : mrun[w].pc = "check"

(* C1: for any capacity c >= 0 and any sequence of _process_batch calls, the
   replay buffer never holds more than c+1 batches, and holds at most c
   whenever no _process_batch call is between its appendleft and its
   overflow check (in particular whenever _process_batch has returned). *)
C1_BufferBounded ==
    /\ Len(replay_buffer) <= cfg.replay_buffer_size + 1
    /\ ~InProcessBatchBeforeEviction => Len(replay_buffer) <= cfg.replay_buffer_size

(* The transient overflow happens, and a call returns with a full buffer. *)
C1_Witness ==
    /\ cfg.replay_buffer_size >= 1
    /\ Len(replay_buffer) = cfg.replay_buffer_size
    /\ ModelIdle
    /\ Len(trained) >= 1
    /\ trained[Len(trained)].op = "process"

(* The first call of _empty_buffer by the driver, or one past its calls. *)
FirstEmptyCall ==
    IF CallsOf("empty") = {}
    THEN Len(trace[Main]) + 1
    ELSE CHOOSE i \in CallsOf("empty") : \A j \in CallsOf("empty") : i <= j

(* k: the pushes made before the first _empty_buffer. *)
PushesBeforeEmpty == FirstEmptyCall - 1

(* C2: pushing k batches with capacity c, k > c, buffer initially empty,
   causes exactly k-c calls of _train_on_batch, the i-th of them inside push
   number c+i (the one that overflowed); a following _empty_buffer trains
   exactly the remaining c batches and leaves the buffer empty. *)
C2_TrainCounts ==
    LET k == PushesBeforeEmpty
        c == cfg.replay_buffer_size
    IN /\ \A i \in 1..Len(trained) :
            i <= k - c => trained[i].op = "process" /\ trained[i].n_pushed = c + i
       /\ (ModelIdle /\ CallsOf("empty") = {} /\ k > c) => Len(trained) = k - c
       /\ (ModelIdle /\ Len(trace[Main]) = FirstEmptyCall /\ k > c) =>
            /\ Len(trained) = k
            /\ {i \in 1..Len(trained) : trained[i].op = "empty"} = (k - c + 1)..k
            /\ replay_buffer = <<>>

(* k = c + 2 pushes followed by one _empty_buffer that has returned. *)
C2_Witness ==
    /\ ModelIdle
    /\ Len(trace[Main]) = FirstEmptyCall
    /\ cfg.replay_buffer_size >= 1
    /\ PushesBeforeEmpty >= cfg.replay_buffer_size + 2

(* C3: batches are trained in the order in which they were pushed: the batch
   popped for the i-th _train_on_batch is the i-th batch pushed, which is the
   oldest one in the buffer. *)
C3_TrainedInPushOrder ==
    /\ Len(trained) <= Len(pushed)
    /\ \A i \in 1..Len(trained) : trained[i].batch = pushed[i]

(* A batch is popped for training while a younger one stays in the buffer. *)
C3_Witness ==
    /\ \E w \in Workers : mrun[w].pc = "train"
    /\ Len(replay_buffer) >= 2
    /\ Len(trained) >= 1

(* train_on_data: rollouts with the default expert_rate = 0.0 and the
   progress callback; save_every = n_labels // saves_per_epoch. *)
Init ==
    /\ \E n \in [Files -> 0..MaxLabels], s \in 1..MaxSavesPerEpoch :
        cfg \in [entry : {"train"},
                 n_labels : {n},
                 concurrency : 1..MaxConcurrency,
                 replay_buffer_size : 0..MaxBufferSize,
                 grad_accum_steps : 1..MaxAccumSteps,
                 save_every : {SumLabels(n) \div s},
                 saves_per_epoch : {s},
                 expert_rate : {0},
                 has_callback : {TRUE}]
    /\ InitState
    /\ patching = NoPatching
    /\ loading = NoLoading
    /\ chunking = NoChunking
    /\ building = NoBuilding
    /\ decoding = NoDecoding

Rollout(f) ==
    \/ TaskStart(f)
    \/ TaskWoken(f)
    \/ CpuBuild(f)
    \/ ResumeBuild(f)
    \/ ResumePredict(f)
    \/ CpuCheck(f)
    \/ ResumeCheck(f)
    \/ CpuRegen(f)
    \/ ResumeRegen(f)

Next ==
    \/ \E f \in Files : Rollout(f)
    \/ \E f \in Files : LogAcquire(f)
    \/ \E f \in Files : LogRelease(f)
    \/ \E f \in Files : ResumeProcess(f)
    \/ MainResume
    \/ MainReturn
    \/ \E w \in Workers : MStart(w)
    \/ \E w \in Workers : MPredict(w)
    \/ \E w \in Workers : TrainingStep(w)

Spec == Init /\ [][Next]_vars

---------------------------------------------------------------------------
(* Properties of train_on_data (Spec) *)

BusyWorkers == {w \in Workers : mrun[w].op # "idle"}

(* C4: at most one of predict_on_batch, _process_batch (with its
   _train_on_batch / _update_model) and _empty_buffer is executing at any
   instant, whatever the in-flight rollouts have submitted. *)
C4_ModelCallsSerialized == Cardinality(BusyWorkers) <= 1

(* A model call is running while another one is already submitted. *)
C4_Witness ==
    /\ BusyWorkers # {}
    /\ model_queue # <<>>
    /\ \E w \in Workers : mrun[w].op = "process"
    /\ Head(model_queue).op = "predict"

(* The tasks that hold a slot of the semaphore: f(x) has started and has not
   finished. *)
InFlight == {f \in Files : taskPc[f] \notin {"created", "sem_wait", "woken", "done", "failed"}}

Finished == {f \in Files : taskPc[f] \in {"done", "failed"}}

(* C5: throttled_async_run never has more than `concurrency` invocations of f
   in flight; the slots in use and the free ones add up to `concurrency`, so
   an invocation beyond the n-th has started only after an earlier one
   finished. *)
C5_AtMostNInFlight ==
    /\ Cardinality(InFlight) <= cfg.concurrency
    /\ Cardinality(InFlight) + sem = cfg.concurrency
    /\ Cardinality(InFlight) + Cardinality(Finished) > cfg.concurrency
            => Cardinality(Finished) >= 1

(* All slots are taken and a further task waits at the gate. *)
C5_Witness ==
    /\ Cardinality(InFlight) = cfg.concurrency
    /\ waiters # <<>>

(* C6: the replay buffer, grad_counter, save_counter and the parameters
   change only in steps of a model-executor worker that is running
   _process_batch or _empty_buffer. *)
C6_MutatedOnModelThreadOnly ==
    [][(\/ replay_buffer' # replay_buffer
        \/ grad_counter' # grad_counter
        \/ save_counter' # save_counter
        \/ params' # params)
       => \E w \in Workers : mrun[w].op \in {"process", "empty"} /\ mrun'[w] # mrun[w]]_vars

(* All four have been written while a rollout is still in flight. *)
C6_Witness ==
    /\ replay_buffer # <<>>
    /\ params >= 1
    /\ save_counter >= 1
    /\ grad_counter >= 1
    /\ InFlight # {}

(* The batches rollout_on_src produces for the training files. *)
AllBatches == {[file |-> f, label |-> t, n_prev |-> t, n_labels |-> 1] :
                    f \in Files, t \in 0..(MaxLabels - 1)}

Produced == {b \in AllBatches : b.label < cfg.n_labels[b.file]}

Occurrences(seq, b) == Cardinality({i \in 1..Len(seq) : seq[i] = b})

(* C7: no batch is pushed or trained twice, and when train_on_data returns
   every batch of every rollout has been pushed once and trained once: the
   number of _train_on_batch calls is the number of labels, and the buffer
   is empty. *)
C7_EveryBatchTrainedOnce ==
    /\ \A b \in AllBatches : Occurrences(pushed, b) <= 1
    /\ \A i \in 1..Len(trained) : Occurrences(pushed, trained[i].batch) = 1
    /\ mainPc = "returned" =>
        /\ \A b \in Produced :
                /\ Occurrences(pushed, b) = 1
                /\ Cardinality({i \in 1..Len(trained) : trained[i].batch = b}) = 1
        /\ Len(pushed) = SumLabels(cfg.n_labels)
        /\ Len(trained) = SumLabels(cfg.n_labels)
        /\ replay_buffer = <<>>

(* train_on_data returned after more labels than the buffer holds, some of
   them trained by _process_batch and the rest by _empty_buffer. *)
C7_Witness ==
    /\ mainPc = "returned"
    /\ cfg.replay_buffer_size >= 1
    /\ SumLabels(cfg.n_labels) > cfg.replay_buffer_size + 1
    /\ \A f \in Files : cfg.n_labels[f] >= 1

(* rollout_on_src driven through throttled_async_run with any expert_rate,
   with or without a batch callback. *)
InitRolloutRun ==
    /\ cfg \in [entry : {"rollout"},
                n_labels : [Files -> 0..MaxLabels],
                concurrency : 1..MaxConcurrency,
                replay_buffer_size : {0},
                grad_accum_steps : {1},
                save_every : {0},
                saves_per_epoch : {1},
                expert_rate : ExpertRates,
                has_callback : BOOLEAN]
    /\ InitState
    /\ patching = NoPatching
    /\ loading = NoLoading
    /\ chunking = NoChunking
    /\ building = NoBuilding
    /\ decoding = NoDecoding

NextRollout ==
    \/ \E f \in Files : Rollout(f)
    \/ MainResume
    \/ \E w \in Workers : MStart(w)
    \/ \E w \in Workers : MPredict(w)

SpecRollout == InitRolloutRun /\ [][NextRollout]_vars

---------------------------------------------------------------------------
(* Properties of rollout_on_src (SpecRollout) *)

NotCallback(e) == e[1] # "callback"

(* The rollout events of file f without the callback's. *)
Steps(f) == SelectSeq(trace[f], NotCallback)

StepKinds(i) ==
    CASE i % 4 = 0 -> {"build"}
      [] i % 4 = 1 -> {"reveal", "predict"}
      [] i % 4 = 2 -> {"check"}
      [] OTHER -> {"regen"}

(* C8: within one file's rollout the steps come strictly in the order
   build t, choose t (reveal or predict), type-check t, regenerate t,
   build t+1, ...; and the batch of label t+1 is cut from the source that
   step t regenerated (the batch of label 0 from the original source). *)
C8_StepsSequential ==
    \A f \in Files :
        /\ \A i \in 1..Len(Steps(f)) :
                /\ Steps(f)[i][2] = (i - 1) \div 4
                /\ Steps(f)[i][1] \in StepKinds(i - 1)
        /\ \A k \in 1..Len(rs[f].src_seq) :
                DOMAIN rs[f].src_seq[k].prev_types = 0..(k - 1)
        /\ \A k \in 1..Len(rs[f].batch_seq) :
                /\ rs[f].batch_seq[k].label = k - 1
                /\ k - 1 <= Len(rs[f].src_seq)
                /\ rs[f].batch_seq[k] =
                        src_to_batch(IF k = 1 THEN OriginalSrc(f)
                                     ELSE rs[f].src_seq[k - 1], k - 1)

(* The second label's batch has been built and its type check is running. *)
C8_Witness ==
    \E f \in Files :
        /\ Len(rs[f].batch_seq) = 2
        /\ Len(rs[f].src_seq) = 1
        /\ taskPc[f] = "check"

(* C9: with a callback registered, the body of the callback for batch t
   starts before the type check of step t has completed. *)
C9_CallbackOverlapsTypeCheck ==
    cfg.has_callback =>
        \A f \in Files : \A i \in 1..Len(trace[f]) :
            trace[f][i][1] = "check" =>
                \E j \in 1..(i - 1) : trace[f][j] = <<"callback", trace[f][i][2]>>

(* C10: with expert_rate = 1.0 every recorded type is the ground truth,
   every expert flag is true, predict_on_batch is neither called nor
   submitted, and a finished rollout has assigned every label. *)
C10_ExpertRateOne ==
    cfg.expert_rate = RandomSteps =>
        \A f \in Files :
            /\ \A t \in DOMAIN rs[f].type_assignment :
                    rs[f].type_assignment[t] = Label(f, t)
            /\ \A i \in 1..Len(rs[f].used_expert) : rs[f].used_expert[i]
            /\ \A i \in 1..Len(trace[f]) : trace[f][i][1] # "predict"
            /\ fut[f].kind # "predict"
            /\ taskPc[f] = "done" =>
                    /\ DOMAIN rs[f].type_assignment = 0..(cfg.n_labels[f] - 1)
                    /\ Len(rs[f].used_expert) = cfg.n_labels[f]

(* A rollout of a file with MaxLabels labels has finished under
   expert_rate = 1.0. *)
C10_Witness ==
    /\ cfg.expert_rate = RandomSteps
    /\ \E f \in Files :
        /\ taskPc[f] = "done"
        /\ cfg.n_labels[f] = MaxLabels
        /\ DOMAIN rs[f].type_assignment = 0..(MaxLabels - 1)

(* The events of one kind for label t in the rollout of file f. *)
EventsOf(f, kind, t) == {i \in 1..Len(trace[f]) : trace[f][i] = <<kind, t>>}

(* The predict_on_batch calls executed for file f. *)
PredictCalls(f) == {i \in 1..Len(trace[f]) : trace[f][i][1] = "predict"}

FalseFlags(f) == {i \in 1..Len(rs[f].used_expert) : ~rs[f].used_expert[i]}

ChoiceMatchesFlag ==
    \A f \in Files :
        LET R == rs[f] IN
        /\ \A t \in 0..(Len(R.used_expert) - 1) :
            /\ Cardinality(EventsOf(f, "reveal", t))
                    + Cardinality(EventsOf(f, "predict", t)) <= 1
            /\ R.used_expert[t + 1] =>
                    /\ EventsOf(f, "predict", t) = {}
                    /\ t \in DOMAIN R.type_assignment =>
                            /\ R.type_assignment[t] = Label(f, t)
                            /\ Cardinality(EventsOf(f, "reveal", t)) = 1
            /\ ~R.used_expert[t + 1] =>
                    /\ EventsOf(f, "reveal", t) = {}
                    /\ t \in DOMAIN R.type_assignment =>
                            Cardinality(EventsOf(f, "predict", t)) = 1
        /\ DOMAIN R.type_assignment \subseteq 0..(Len(R.used_expert) - 1)
        /\ taskPc[f] = "done" =>
            /\ Cardinality(PredictCalls(f)) = Cardinality(FalseFlags(f))
            /\ cfg.expert_rate = 0 => Cardinality(PredictCalls(f)) = cfg.n_labels[f]

PredictionRecorded ==
    \A f \in Files :
        (taskPc[f] = "predict" /\ taskPc'[f] # "predict") =>
            /\ rs[f].t \in DOMAIN rs'[f].type_assignment
            /\ rs'[f].type_assignment[rs[f].t] = fut[f].res

(* C11: in every rollout step t either the ground truth of label t is
   recorded and predict_on_batch is not called for t, or predict_on_batch is
   called exactly once for t and its result is what is recorded;
   used_expert[t] tells which, so a finished rollout has made as many model
   calls as it has false flags (one per label with expert_rate = 0.0). *)
C11_OneChoicePerStep == []ChoiceMatchesFlag /\ [][PredictionRecorded]_vars

(* A finished rollout that revealed its first label and predicted its second. *)
C11_Witness ==
    \E f \in Files :
        /\ taskPc[f] = "done"
        /\ rs[f].used_expert = <<TRUE, FALSE>>
        /\ Cardinality(PredictCalls(f)) = 1
        /\ EventsOf(f, "reveal", 0) # {}

(* C12: when rollout_on_src has returned for a file with n labels,
   type_assignment has exactly the keys 0..n-1; batch_seq, src_seq and
   used_expert have n entries each, entry t being the one of label t (the
   batch cut around label t, the source regenerated with the types of labels
   0..t); and every batch carries exactly one label. *)
C12_ResultShape ==
    \A f \in Files :
        taskPc[f] = "done" =>
            LET R == rs[f]
                n == cfg.n_labels[f]
            IN /\ DOMAIN R.type_assignment = 0..(n - 1)
               /\ Len(R.batch_seq) = n
               /\ Len(R.src_seq) = n
               /\ Len(R.used_expert) = n
               /\ \A k \in 1..Len(R.batch_seq) :
                    /\ R.batch_seq[k].file = f
                    /\ R.batch_seq[k].label = k - 1
                    /\ R.batch_seq[k].n_labels = 1
               /\ \A k \in 1..Len(R.src_seq) :
                    /\ R.src_seq[k].file = f
                    /\ DOMAIN R.src_seq[k].prev_types = 0..(k - 1)
                    /\ \A t \in 0..(k - 1) :
                            R.src_seq[k].prev_types[t] = R.type_assignment[t]

(* The rollout of a file with MaxLabels labels has returned while another
   file's rollout is still running. *)
C12_Witness ==
    \E f \in Files :
        /\ taskPc[f] = "done"
        /\ cfg.n_labels[f] = MaxLabels
        /\ Len(rs[f].batch_seq) = MaxLabels
        /\ InFlight # {}

---------------------------------------------------------------------------
(* Properties of gradient accumulation and the end of the epoch *)

(* Len(trained) at the update before the i-th, and at the last update. *)
PrevUpdateAt(i) == IF i = 1 THEN 0 ELSE updates[i - 1].at

LastUpdateAt == IF updates = <<>> THEN 0 ELSE updates[Len(updates)].at

(* A worker is inside _update_model, before / after optimizer.step(). *)
UpdateDue == \E w \in Workers : mrun[w].pc = "update"

InUpdate == \E w \in Workers : mrun[w].pc \in {"log", "logging", "save"}

(* C13: _train_on_batch calls _update_model exactly on every
   grad_accum_steps-th call since the previous update (the only other update
   is the final one of _empty_buffer, after fewer calls); grad_counter counts
   the calls since the previous update, 0 <= grad_counter < grad_accum_steps
   holds between calls, and grad_counter is 0 after every update. *)
C13_UpdateEveryAccumSteps ==
    LET a == cfg.grad_accum_steps IN
    /\ 0 <= grad_counter /\ grad_counter <= a
    /\ grad_counter = a => UpdateDue \/ InUpdate
    /\ ModelIdle => grad_counter < a
    /\ ~InUpdate => grad_counter = Len(trained) - LastUpdateAt
    /\ ~UpdateDue => Len(trained) - LastUpdateAt < a
    /\ \A i \in 1..Len(updates) :
        IF updates[i].flush
        THEN /\ updates[i].op = "empty"
             /\ 0 < updates[i].at - PrevUpdateAt(i)
             /\ updates[i].at - PrevUpdateAt(i) < a
        ELSE updates[i].at - PrevUpdateAt(i) = a

(* Three calls with grad_accum_steps = 2: one update after the second, and
   one gradient accumulated since. *)
C13_Witness ==
    /\ cfg.grad_accum_steps = 2
    /\ ModelIdle
    /\ Len(trained) = 3
    /\ Len(updates) = 1
    /\ ~updates[1].flush
    /\ grad_counter = 1

(* _empty_buffer has been submitted by train_on_data, is running, or is done. *)
EmptyBufferCalled == mainPc \in {"empty", "returned"}

FlushUpdates == {i \in 1..Len(updates) : updates[i].flush}

TrainedBy(op) == {i \in 1..Len(trained) : trained[i].op = op}

Min(a, b) == IF a <= b THEN a ELSE b

(* C14: _empty_buffer is submitted only when every rollout and every
   _process_batch of the epoch has finished; it trains on all the batches
   left in the buffer and then makes one final update if and only if
   grad_counter > 0, so that train_on_data returns with the buffer empty and
   grad_counter = 0. *)
C14_EmptyBufferAtEnd ==
    LET total == SumLabels(cfg.n_labels)
        a == cfg.grad_accum_steps
    IN /\ EmptyBufferCalled =>
            /\ \A f \in Files : taskPc[f] = "done" /\ fut[f].st \notin {"pending", "running"}
            /\ Len(pushed) = total
            /\ \A w \in Workers : mrun[w].op \in {"idle", "empty"}
            /\ \A i \in 1..Len(model_queue) : model_queue[i].op = "empty"
       /\ ~EmptyBufferCalled => TrainedBy("empty") = {} /\ FlushUpdates = {}
       /\ \A i \in TrainedBy("empty") : trained[i].n_pushed = total
       /\ Cardinality(FlushUpdates) <= 1
       /\ \A i \in FlushUpdates :
            /\ i = Len(updates)
            /\ updates[i].at = total
            /\ replay_buffer = <<>>
       /\ mainPc = "returned" =>
            /\ replay_buffer = <<>>
            /\ grad_counter = 0
            /\ Len(trained) = total
            /\ Cardinality(TrainedBy("empty")) = Min(cfg.replay_buffer_size, total)
            /\ FlushUpdates # {} <=> total % a # 0
            /\ total > 0 => LastUpdateAt = total

(* train_on_data has returned after _empty_buffer trained a buffered batch
   and flushed an incomplete accumulation. *)
C14_Witness ==
    /\ mainPc = "returned"
    /\ TrainedBy("process") # {}
    /\ TrainedBy("empty") # {}
    /\ FlushUpdates # {}
    /\ Len(updates) >= 2

---------------------------------------------------------------------------
(* Properties of checkpointing *)

(* The labels consumed by the updates that have run to their end. *)
LabelsOfFinishedUpdates ==
    IF InUpdate THEN PrevUpdateAt(Len(updates)) ELSE LastUpdateAt

(* The step is the end of an _update_model call. *)
UpdateEnds == \E w \in Workers : mrun[w].pc = "save" /\ mrun'[w].pc # "save"

(* saves_per_epoch divides the number of labels, and the threshold is positive. *)
EvenThreshold ==
    /\ cfg.save_every >= 1
    /\ SumLabels(cfg.n_labels) % cfg.saves_per_epoch = 0

(* C15 as stated, for the runs with an even threshold: a checkpoint is saved
   in the update in which save_counter crosses save_every, and the save leaves
   the counter at zero. *)
C15_SaveResetsCounter ==
    [][(EvenThreshold /\ n_saves' # n_saves) =>
            /\ save_counter < cfg.save_every
            /\ save_counter + grad_counter >= cfg.save_every
            /\ save_counter' = 0]_vars

SaveCounterIsExcess ==
    /\ save_counter >= 0
    /\ save_counter = LabelsOfFinishedUpdates - n_saves * cfg.save_every
    /\ n_saves <= Len(updates)

SaveAtThreshold ==
    /\ UpdateEnds =>
            IF save_counter + grad_counter >= cfg.save_every
            THEN /\ n_saves' = n_saves + 1
                 /\ save_counter' = save_counter + grad_counter - cfg.save_every
            ELSE /\ n_saves' = n_saves
                 /\ save_counter' = save_counter + grad_counter
    /\ ~UpdateEnds => n_saves' = n_saves /\ save_counter' = save_counter

(* C15, amended: a checkpoint is saved in exactly those parameter updates in
   which save_counter, after the update's grad_counter is added to it, is at
   or above save_every = total labels // saves_per_epoch; the save subtracts
   save_every from the counter, which therefore keeps its excess over the
   threshold: it is always the number of labels consumed minus save_every
   times the number of saves. *)
C15_SaveSubtractsThreshold ==
    /\ [](cfg.save_every = SumLabels(cfg.n_labels) \div cfg.saves_per_epoch)
    /\ []SaveCounterIsExcess
    /\ [][SaveAtThreshold]_vars

(* A save has left a positive excess in the counter. *)
C15_Witness ==
    /\ n_saves >= 1
    /\ save_counter >= 1
    /\ cfg.save_every >= 1
    /\ ModelIdle

(* C16: during one epoch of train_on_data the number of checkpoints saved
   is at most saves_per_epoch, for any number of labels, any
   grad_accum_steps >= 1 and any saves_per_epoch >= 1. *)
C16_AtMostSavesPerEpoch == n_saves <= cfg.saves_per_epoch

---------------------------------------------------------------------------
(* train_on_data with its threads scheduled fairly: the event-loop thread,
   the model-executor thread and each worker-pool task take a step when they
   can; log_fn returns. *)

EventLoopStep ==
    \/ \E f \in Files :
            \/ TaskStart(f) \/ TaskWoken(f)
            \/ ResumeBuild(f) \/ ResumePredict(f) \/ ResumeCheck(f) \/ ResumeRegen(f)
            \/ LogAcquire(f) \/ LogRelease(f) \/ ResumeProcess(f)
    \/ MainResume
    \/ MainReturn

ModelThreadStep == \E w \in Workers : MStart(w) \/ MPredict(w) \/ TrainingStep(w)

CpuStep(f) == CpuBuild(f) \/ CpuCheck(f) \/ CpuRegen(f)

Fairness ==
    /\ WF_vars(EventLoopStep)
    /\ WF_vars(ModelThreadStep)
    /\ \A f \in Files : WF_vars(CpuStep(f))

(* The runs of train_on_data in which the two threads meet at the lock:
   every batch trained in the _process_batch that pushed it, the files
   admitted one after the other or all at once. *)
InitFair ==
    /\ \E n \in [Files -> 0..MaxLabels] :
        cfg \in [entry : {"train"},
                 n_labels : {n},
                 concurrency : 1..MaxConcurrency,
                 replay_buffer_size : {0},
                 grad_accum_steps : 1..MaxAccumSteps,
                 save_every : {SumLabels(n)},
                 saves_per_epoch : {1},
                 expert_rate : {0},
                 has_callback : {TRUE}]
    /\ InitState
    /\ patching = NoPatching
    /\ loading = NoLoading
    /\ chunking = NoChunking
    /\ building = NoBuilding
    /\ decoding = NoDecoding

FairSpec == InitFair /\ [][Next]_vars /\ Fairness

LoopInLogFn == {f \in Files : taskPc[f] = "logging"}

ModelInLogFn == {w \in Workers : mrun[w].pc = "logging"}

LogExclusive ==
    /\ Cardinality(LoopInLogFn) + Cardinality(ModelInLogFn) <= 1
    /\ log_lock = "loop" <=> LoopInLogFn # {}
    /\ log_lock = "model" <=> ModelInLogFn # {}
    /\ log_lock \in {"free", "loop", "model"}

(* C17: log_fn is never run by the event-loop thread (train_step) and the
   model thread (_update_model) at once, and every call of it completes:
   the lock is always released again, and a thread that wants to log gets
   to log and goes on. *)
C17_LogFnExclusive ==
    /\ []LogExclusive
    /\ (log_lock # "free") ~> (log_lock = "free")
    /\ \A f \in Files :
            (taskPc[f] = "log_acquire") ~> (taskPc[f] \notin {"log_acquire", "logging"})
    /\ \A w \in Workers :
            (mrun[w].pc = "log") ~> (mrun[w].pc \notin {"log", "logging"})

(* The event-loop thread waits for the lock the model thread holds. *)
C17_Witness ==
    /\ log_lock = "model"
    /\ \E f \in Files : taskPc[f] = "log_acquire"

---------------------------------------------------------------------------
(* throttled_async_run over rollout_on_src as eval_on_data calls it
   (expert_rate = 0.0, with the progress callback), its threads scheduled
   fairly; every offloaded call returns. *)

InitFairRollout ==
    /\ cfg \in [entry : {"rollout"},
                n_labels : [Files -> 0..MaxLabels],
                concurrency : 1..MaxConcurrency,
                replay_buffer_size : {0},
                grad_accum_steps : {1},
                save_every : {0},
                saves_per_epoch : {1},
                expert_rate : {0},
                has_callback : {TRUE}]
    /\ InitState
    /\ patching = NoPatching
    /\ loading = NoLoading
    /\ chunking = NoChunking
    /\ building = NoBuilding
    /\ decoding = NoDecoding

FairSpecRollout == InitFairRollout /\ [][NextRollout]_vars /\ Fairness

AtGate(f) == taskPc[f] \in {"created", "sem_wait", "woken"}

RunOnce ==
    /\ \A i, j \in 1..Len(done_order) : done_order[i] = done_order[j] => i = j
    /\ \A f \in Files :
        /\ taskPc[f] = "done" <=> \E i \in 1..Len(done_order) : done_order[i] = f
        /\ \A t \in 0..(MaxLabels - 1) : \A kind \in {"build", "predict", "check", "regen"} :
                Cardinality(EventsOf(f, kind, t)) <= 1
    /\ mainPc # "returned" => results = <<>>

ReturnedInInputOrder ==
    mainPc = "returned" =>
        /\ sem = cfg.concurrency
        /\ waiters = <<>>
        /\ Len(done_order) = NumFiles
        /\ Len(results) = NumFiles
        /\ \A f \in Files :
            /\ taskPc[f] = "done"
            /\ \A t \in 0..(cfg.n_labels[f] - 1) :
                    \A kind \in {"build", "predict", "check", "regen"} :
                        Cardinality(EventsOf(f, kind, t)) = 1
            /\ Len(results[f].batch_seq) = cfg.n_labels[f]
            /\ \A k \in 1..Len(results[f].batch_seq) : results[f].batch_seq[k].file = f
            /\ \A k \in 1..Len(results[f].src_seq) : results[f].src_seq[k].file = f

(* C18: with every offloaded call returning, throttled_async_run finishes;
   every element of xs is admitted and its f(x) runs to the end exactly
   once; no task stays at the semaphore for ever; and the list returned has
   the result of xs[i] at position i, whatever the order in which the tasks
   finished. *)
C18_RunToCompletion ==
    /\ <>(mainPc = "returned")
    /\ \A f \in Files : AtGate(f) ~> (taskPc[f] = "done")
    /\ []RunOnce
    /\ []ReturnedInInputOrder

(* throttled_async_run has returned after the second file finished first,
   both files having labels. *)
C18_Witness ==
    /\ mainPc = "returned"
    /\ Len(done_order) = NumFiles
    /\ done_order[1] # 1
    /\ \A f \in Files : cfg.n_labels[f] >= 1

---------------------------------------------------------------------------
(* The chunker of src/src/spot/data.py: chunk_srcs and
   _ChunkingHelper.process_chunk.  A token id is a record [kind, n]: a
   source token ("tk"), a sub-token of a type ("ty"), or one of the
   tokenizer's special ids.  The sources are any TokenizedSrc whose
   types_pos are increasing positions of mask tokens. *)

MaxSrcs == 2
MaxSrcLen == 3
MaxCtxSize == 4

(* `99 - extra_id`, `extra_id <= 99` *)
LastMarker == 99

(* len(tokenizer.additional_special_tokens_ids) *)
NumMarkers == LastMarker + 1

Tk(kind, n) == [kind |-> kind, n |-> n]

pad_token_id == Tk("pad", 0)

mask_token_id == Tk("mask", 0)

bos_token_id == Tk("bos", 0)

eos_token_id == Tk("eos", 0)

(* tokenizer.additional_special_tokens_ids[j]; a negative j counts from the
   end of the list. *)
additional_special_tokens_ids(j) == Tk("extra_id", IF j < 0 THEN j + NumMarkers ELSE j)

Max(a, b) == IF a >= b THEN a ELSE b

(* s[a:b], s[:n] and s[-n:] for 0 <= a <= b and n >= 0; s[-0:] is s. *)
Slice(s, a, b) == SubSeq(s, a + 1, Min(b, Len(s)))

FirstN(s, n) == Slice(s, 0, n)

LastN(s, n) == IF n = 0 THEN s ELSE SubSeq(s, Max(Len(s) - n, 0) + 1, Len(s))

(* The concatenation of the sequences ss[1], ..., ss[Len(ss)]. *)
Flatten(ss) ==
    LET RECURSIVE Cat(_, _)
        Cat(a, b) == IF a > b THEN <<>>
                     ELSE IF a = b THEN ss[a]
                     ELSE Cat(a, (a + b) \div 2) \o Cat((a + b) \div 2 + 1, b)
    IN Cat(1, Len(ss))

(* types_tks of a type: the sub-tokens of its string. *)
TypeTks(ty) == IF ty = "int" THEN <<Tk("ty", 1)>> ELSE <<Tk("ty", 2), Tk("ty", 3)>>

IsLabelAt(pat, p) == pat[p + 1]

(* The TokenizedSrc number id whose token p is a masked label iff pat[p+1]. *)
SrcOf(id, pat) ==
    LET positions == SelectSeq([i \in 1..Len(pat) |-> i - 1], LAMBDA p : IsLabelAt(pat, p))
    IN [file |-> id,
        tokenized_code |-> [i \in 1..Len(pat) |->
                                IF pat[i] THEN mask_token_id ELSE Tk("tk", i - 1)],
        types_pos |-> positions,
        types |-> [k \in 1..Len(positions) |-> Label(id, k - 1)],
        types_tks |-> [k \in 1..Len(positions) |-> TypeTks(Label(id, k - 1))],
        types_info |-> [k \in 1..Len(positions) |-> [src |-> id, site |-> k - 1]]]

(* chunk_srcs, lines 280-284: the tuple stored at a label's position. *)
type_tuple(src, i, src_id) ==
    [kind |-> "label", ty |-> src.types[i], info |-> src.types_info[i],
     tks |-> src.types_tks[i], src_id |-> src_id]

(* chunk_srcs, lines 279-284: the tokens of one src with its labels stored. *)
WithLabels(src, src_id) ==
    [p \in 1..Len(src.tokenized_code) |->
        LET at == {i \in 1..Len(src.types) : src.types_pos[i] = p - 1} IN
        IF at = {}
        THEN src.tokenized_code[p]
        ELSE type_tuple(src, CHOOSE i \in at : \A j \in at : j <= i, src_id)]

(* chunk_srcs, lines 276-284 *)
ConcatSrcs(srcs) == Flatten([k \in 1..Len(srcs) |-> WithLabels(srcs[k], k - 1)])

window_size(args) == args.ctx_size - args.left_margin - args.right_margin

(* chunk_srcs, line 291: all_tks[i : i + ctx_size] for i in
   range(0, len(all_tks), stride). *)
SlideWindowMutantUnitStride(all_tks, args) ==
    [k \in 1..Len(all_tks) |-> Slice(all_tks, k - 1, k - 1 + args.ctx_size)]

SlideWindow(all_tks, args) ==
    LET stride == window_size(args)
        n == (Len(all_tks) + stride - 1) \div stride
    IN [k \in 1..n |-> Slice(all_tks, (k - 1) * stride, (k - 1) * stride + args.ctx_size)]

(* process_chunk, lines 766-777: expand_types_as_tks(mixed_tks). *)
expand_types_as_tks(mixed_tks, args) ==
    Flatten([k \in 1..Len(mixed_tks) |->
                IF mixed_tks[k].kind # "label" THEN <<mixed_tks[k]>>
                ELSE IF args.types_in_ctx THEN mixed_tks[k].tks
                ELSE <<mask_token_id>>])

(* process_chunk, lines 783-785: add padding. *)
PaddedMutantNoPadding(tks, args) == tks

Padded(tks, args) ==
    tks \o [i \in 1..(args.ctx_size - Len(tks)) |-> pad_token_id]

(* tks[left_margin : left_margin + window_size] *)
CentralWindow(tks, args) ==
    Slice(tks, args.left_margin, args.left_margin + window_size(args))

(* extra_id when the loop of lines 793-805 is at element p of the window. *)
ExtraIdAt(win, p) == Cardinality({q \in 1..(p - 1) : win[q].kind = "label"})

(* assert extra_id <= 99 *)
MarkerAvailableMutantNoAssert(extra_id) == TRUE

MarkerAvailableMutantOffByOne(extra_id) == extra_id <= LastMarker + 1

MarkerAvailable(extra_id) == extra_id <= LastMarker

(* tokenizer.additional_special_tokens_ids[99 - extra_id] *)
MarkerForMutantAscending(extra_id) == additional_special_tokens_ids(extra_id)

MarkerFor(extra_id) == additional_special_tokens_ids(LastMarker - extra_id)

(* The labels of the window, in window order. *)
WindowLabels(win) == SelectSeq(win, LAMBDA e : e.kind = "label")

(* process_chunk, lines 814-818: bos, then for each label its marker and its
   sub-tokens, then eos. *)
label_idsMutantSharedMarker(found) ==
    <<bos_token_id>>
        \o Flatten([i \in 1..Len(found) |-> <<MarkerFor(0)>> \o found[i].tks])
        \o <<eos_token_id>>

label_ids(found) ==
    <<bos_token_id>>
        \o Flatten([i \in 1..Len(found) |-> <<MarkerFor(i - 1)>> \o found[i].tks])
        \o <<eos_token_id>>

(* _ChunkingHelper.process_chunk(tks): None, the chunk, or the assertion
   that fails. *)
process_chunk(tks0, args) ==
    LET tks == Padded(tks0, args)
        win == CentralWindow(tks, args)
        found == WindowLabels(win)
        middle == [p \in 1..Len(win) |->
                        IF win[p].kind = "label" THEN MarkerFor(ExtraIdAt(win, p))
                        ELSE win[p]]
        left_ctx == LastN(expand_types_as_tks(FirstN(tks, args.left_margin), args),
                          args.left_margin)
        right_ctx == FirstN(expand_types_as_tks(LastN(tks, args.right_margin), args),
                            args.right_margin)
        input_ids == left_ctx \o middle \o right_ctx
    IN IF \E p \in 1..Len(win) : win[p].kind = "label" /\ ~MarkerAvailable(ExtraIdAt(win, p))
       THEN [status |-> "raised", error |-> "> 99 annotations in a single sequence"]
       ELSE IF Len(found) = 0
       THEN [status |-> "None"]
       ELSE IF Len(left_ctx) # args.left_margin \/ Len(right_ctx) # args.right_margin
                \/ Len(input_ids) # args.ctx_size
       THEN [status |-> "raised", error |-> "assert_eq"]
       ELSE [status |-> "chunk",
             input_ids |-> input_ids,
             labels |-> label_ids(found),
             meta |-> [types |-> [i \in 1..Len(found) |-> found[i].ty],
                       annots_info |-> [i \in 1..Len(found) |-> found[i].info],
                       src_ids |-> [i \in 1..Len(found) |-> found[i].src_id]]]

(* chunk_srcs, lines 302-317: the rows of the chunks that are not None. *)
CollectChunks(chunk_outputs) ==
    LET kept == SelectSeq([i \in 1..Len(chunk_outputs) |-> i],
                          LAMBDA i : chunk_outputs[i].status = "chunk")
    IN [chunks |-> [r \in 1..Len(kept) |->
                        [input_ids |-> chunk_outputs[kept[r]].input_ids,
                         labels |-> chunk_outputs[kept[r]].labels,
                         n_labels |-> Len(chunk_outputs[kept[r]].meta.types),
                         chunk_id |-> kept[r] - 1]],
        chunks_info |-> [r \in 1..Len(kept) |-> chunk_outputs[kept[r]].meta]]

(* chunk_srcs(repos_root, srcs, tokenizer, ctx_args, ...) is called. *)
NewChunking(srcs, args) ==
    [pc |-> "start", srcs |-> srcs, ctx_args |-> args, all_tks |-> <<>>,
     chunk_tks |-> <<>>, chunk_outputs |-> <<>>, chunks |-> <<>>, chunks_info |-> <<>>]

DaggerVars ==
    <<cfg, mainPc, taskPc, sem, waiters, rs, fut, model_queue, mrun, replay_buffer,
      grad_counter, save_counter, params, n_saves, log_lock, labels_counter, pushed,
      trained, updates, done_order, results, trace, building, decoding, patching, loading,
      eval_result>>

(* chunk_srcs, lines 273-284 *)
Concat ==
    /\ chunking.pc = "start"
    /\ chunking' = [chunking EXCEPT !.pc = "concat",
                                    !.all_tks = ConcatSrcs(chunking.srcs)]
    /\ UNCHANGED DaggerVars

(* chunk_srcs, lines 286-291 *)
Slide ==
    /\ chunking.pc = "concat"
    /\ chunking' = [chunking EXCEPT !.pc = "process",
                        !.chunk_tks = SlideWindow(chunking.all_tks, chunking.ctx_args)]
    /\ UNCHANGED DaggerVars

(* chunk_srcs, lines 292-299: process_map gives the outputs in the order of
   chunk_tks; an exception of process_chunk ends chunk_srcs. *)
ProcessChunk ==
    /\ chunking.pc = "process"
    /\ Len(chunking.chunk_outputs) < Len(chunking.chunk_tks)
    /\ LET out == process_chunk(chunking.chunk_tks[Len(chunking.chunk_outputs) + 1],
                                chunking.ctx_args)
       IN chunking' = [chunking EXCEPT
                !.chunk_outputs = Append(@, out),
                !.pc = IF out.status = "raised" THEN "raised" ELSE @]
    /\ UNCHANGED DaggerVars

(* chunk_srcs, lines 302-326 *)
Collect ==
    /\ chunking.pc = "process"
    /\ Len(chunking.chunk_outputs) = Len(chunking.chunk_tks)
    /\ LET c == CollectChunks(chunking.chunk_outputs)
       IN chunking' = [chunking EXCEPT !.pc = "done", !.chunks = c.chunks,
                                       !.chunks_info = c.chunks_info]
    /\ UNCHANGED DaggerVars

(* The arguments of chunk_srcs: short sources with any labels under small
   CtxArgs, and a source of NumMarkers or NumMarkers + 1 adjacent labels,
   alone or followed by a short source, under a window that holds them. *)
ShortPatterns == UNION {[1..n -> BOOLEAN] : n \in 0..MaxSrcLen}

SrcsOf(pats) == [i \in 1..Len(pats) |-> SrcOf(i - 1, pats[i])]

ShortSrcs == {SrcsOf(pats) : pats \in UNION {[1..k -> ShortPatterns] : k \in 0..MaxSrcs}}

SmallCtxArgs ==
    {a \in [ctx_size : 1..MaxCtxSize, left_margin : 0..MaxCtxSize,
            right_margin : 0..MaxCtxSize, types_in_ctx : BOOLEAN] : window_size(a) >= 1}

DensePatterns == {[i \in 1..n |-> TRUE] : n \in {NumMarkers, NumMarkers + 1}}

DenseSrcs ==
    {SrcsOf(<<d>>) : d \in DensePatterns}
        \cup {SrcsOf(<<d, p>>) : d \in DensePatterns, p \in ShortPatterns}

WideCtxArgs ==
    [ctx_size : {NumMarkers, NumMarkers + 1}, left_margin : {0}, right_margin : {0},
     types_in_ctx : BOOLEAN]

InitChunk ==
    /\ cfg = [entry |-> "chunk", n_labels |-> [f \in Files |-> 0], concurrency |-> 1,
              replay_buffer_size |-> 0, grad_accum_steps |-> 1, save_every |-> 0,
              saves_per_epoch |-> 1, expert_rate |-> 0, has_callback |-> FALSE]
    /\ InitState
    /\ patching = NoPatching
    /\ loading = NoLoading
    /\ building = NoBuilding
    /\ decoding = NoDecoding
    /\ \/ \E srcs \in ShortSrcs, args \in SmallCtxArgs : chunking = NewChunking(srcs, args)
       \/ \E srcs \in DenseSrcs, args \in WideCtxArgs : chunking = NewChunking(srcs, args)

NextChunk ==
    \/ Concat
    \/ Slide
    \/ ProcessChunk
    \/ Collect

SpecChunk == InitChunk /\ [][NextChunk]_vars

---------------------------------------------------------------------------
(* Properties of the chunker (SpecChunk) *)

(* The chunks process_chunk has emitted so far. *)
Emitted == {j \in 1..Len(chunking.chunk_outputs) : chunking.chunk_outputs[j].status = "chunk"}

(* The central window of candidate j, as cut from all_tks and padded. *)
WindowIn(j) == CentralWindow(Padded(chunking.chunk_tks[j], chunking.ctx_args), chunking.ctx_args)

(* The central window of the input_ids of chunk j. *)
WindowOut(j) == CentralWindow(chunking.chunk_outputs[j].input_ids, chunking.ctx_args)

LabelPlaces(win) == {p \in 1..Len(win) : win[p].kind = "label"}

MarkerPlaces(win) == {p \in 1..Len(win) : win[p].kind = "extra_id"}

(* C19: in every emitted chunk the k-th label of the central window
   (k = 0, 1, ... from the left) is replaced in input_ids by the marker
   99-k and the other tokens of the window are kept; so the window holds
   len(SrcChunkInfo.types) distinct markers, whose ids go down from 99 as the
   position goes up. *)
C19_MarkersDescendFrom99 ==
    \A j \in Emitted :
        LET win == WindowIn(j)
            out == WindowOut(j)
            meta == chunking.chunk_outputs[j].meta
        IN /\ Len(out) = Len(win)
           /\ MarkerPlaces(out) = LabelPlaces(win)
           /\ \A p \in 1..Len(win) :
                IF win[p].kind = "label"
                THEN LET k == Cardinality({q \in LabelPlaces(win) : q < p})
                     IN /\ out[p] = Tk("extra_id", 99 - k)
                        /\ meta.types[k + 1] = win[p].ty
                ELSE out[p] = win[p]
           /\ Cardinality({out[p].n : p \in MarkerPlaces(out)}) = Len(meta.types)
           /\ \A p, q \in MarkerPlaces(out) : p < q => out[p].n > out[q].n
           /\ \A p \in MarkerPlaces(out) : out[p].n = 99 <=> \A q \in MarkerPlaces(out) : p <= q

(* A chunk whose window holds a label, a source token and another label. *)
C19_Witness ==
    \E j \in Emitted :
        /\ Len(WindowOut(j)) = 3
        /\ WindowOut(j)[1] = Tk("extra_id", 99)
        /\ WindowOut(j)[2].kind = "tk"
        /\ WindowOut(j)[3] = Tk("extra_id", 98)
        /\ chunking.ctx_args.left_margin >= 1

(* C20: every chunk chunk_srcs emits has between 1 and 100 labels, n_labels
   being the number of labels in its central window; a candidate with no
   label in its central window gives no chunk. *)
C20_OneToHundredLabels ==
    /\ \A j \in 1..Len(chunking.chunk_outputs) :
        /\ LabelPlaces(WindowIn(j)) = {} => chunking.chunk_outputs[j].status = "None"
        /\ j \in Emitted =>
            /\ Len(chunking.chunk_outputs[j].meta.types) = Cardinality(LabelPlaces(WindowIn(j)))
            /\ Len(chunking.chunk_outputs[j].meta.types) \in 1..100
    /\ \A r \in 1..Len(chunking.chunks) :
        LET row == chunking.chunks[r] IN
        /\ row.n_labels \in 1..100
        /\ row.chunk_id + 1 \in Emitted
        /\ row.n_labels = Cardinality(LabelPlaces(WindowIn(row.chunk_id + 1)))
        /\ row.n_labels = Len(chunking.chunks_info[r].types)
    /\ chunking.pc = "done" => Len(chunking.chunks) = Cardinality(Emitted)

(* chunk_srcs has returned a chunk with 100 labels and has dropped a
   candidate without labels. *)
C20_Witness ==
    /\ chunking.pc = "done"
    /\ \E r \in 1..Len(chunking.chunks) : chunking.chunks[r].n_labels = 100
    /\ \E j \in 1..Len(chunking.chunk_outputs) : chunking.chunk_outputs[j].status = "None"

(* The markers of a token sequence, in order. *)
MarkersOf(tks) == SelectSeq(tks, LAMBDA e : e.kind = "extra_id")

(* C21: a candidate with more than 100 labels in its central window makes
   process_chunk fail on its assertion, which ends chunk_srcs without any
   chunk; a candidate with exactly 100 labels gives a chunk; and no chunk
   has more than 100 labels, a marker outside 0..99 or a marker twice. *)
C21_OverflowRaises ==
    \A j \in 1..Len(chunking.chunk_outputs) :
        LET n == Cardinality(LabelPlaces(WindowIn(j)))
            out == chunking.chunk_outputs[j]
        IN /\ n > 100 =>
                /\ out = [status |-> "raised", error |-> "> 99 annotations in a single sequence"]
                /\ chunking.pc = "raised"
                /\ chunking.chunks = <<>>
           /\ n = 100 => out.status = "chunk"
           /\ out.status = "chunk" =>
                /\ n <= 100
                /\ \A sq \in {MarkersOf(WindowOut(j)), MarkersOf(out.labels)} :
                    /\ Len(sq) = n
                    /\ \A a \in 1..Len(sq) : sq[a].n \in 0..99
                    /\ \A a, b \in 1..Len(sq) : a # b => sq[a].n # sq[b].n

(* chunk_srcs has ended on the assertion of a candidate of 101 labels. *)
C21_Witness ==
    /\ chunking.pc = "raised"
    /\ Cardinality(LabelPlaces(WindowIn(Len(chunking.chunk_outputs)))) = 101

(* What a token outside the central window is shown as when types_in_ctx is
   off. *)
Collapsed(e) == IF e.kind = "label" THEN mask_token_id ELSE e

(* C22: no candidate fails a length assertion, and every emitted chunk has
   ctx_size input_ids: left_margin of left context, window_size of central
   window, right_margin of right context.  A candidate shorter than ctx_size
   is filled up on the right with the pad token.  Without types_in_ctx each
   context token is the candidate's token at its place, a label collapsed
   to the mask token; with types_in_ctx the left context ends with, and the
   right context starts with, the sub-tokens of the neighbouring labels, cut
   to the margin. *)
C22_ExactLengths ==
    \A j \in 1..Len(chunking.chunk_outputs) :
        LET args == chunking.ctx_args
            out == chunking.chunk_outputs[j]
            cand == chunking.chunk_tks[j]
            ids == out.input_ids
            L == args.left_margin
            W == window_size(args)
            at(p) == IF p <= Len(cand) THEN cand[p] ELSE pad_token_id
        IN /\ out.status = "raised" => out.error # "assert_eq"
           /\ out.status = "chunk" =>
                /\ Len(ids) = args.ctx_size
                /\ Len(ids) = L + W + args.right_margin
                /\ Len(WindowOut(j)) = W
                /\ \A p \in (L + 1)..(L + W) :
                        /\ ids[p].kind = "extra_id" <=> at(p).kind = "label"
                        /\ ids[p].kind # "extra_id" => ids[p] = at(p)
                /\ \A p \in (1..L) \cup ((L + W + 1)..Len(ids)) :
                        /\ ids[p].kind \notin {"label", "extra_id"}
                        /\ ~args.types_in_ctx => ids[p] = Collapsed(at(p))
                /\ (args.types_in_ctx /\ L >= 1) =>
                        ids[L] = (IF at(L).kind = "label"
                                  THEN at(L).tks[Len(at(L).tks)] ELSE at(L))
                /\ (args.types_in_ctx /\ args.right_margin >= 1) =>
                        ids[L + W + 1] = (IF at(L + W + 1).kind = "label"
                                          THEN at(L + W + 1).tks[1] ELSE at(L + W + 1))

(* A chunk of a padded final candidate, whose left context is cut from a
   longer expansion of a label and whose right context is padding. *)
C22_Witness ==
    \E j \in Emitted :
        LET args == chunking.ctx_args
            cand == chunking.chunk_tks[j]
        IN /\ Len(cand) < args.ctx_size
           /\ args.types_in_ctx
           /\ args.left_margin >= 1
           /\ args.right_margin >= 1
           /\ \E p \in 1..args.left_margin : cand[p].kind = "label" /\ Len(cand[p].tks) > 1
           /\ chunking.chunk_outputs[j].input_ids[args.ctx_size] = pad_token_id

(* The label entries of the emitted chunks and the label sites of the
   sources. *)
ChunkLabels ==
    UNION {{<<r, a>> : a \in 1..Len(chunking.chunks_info[r].types)} :
                r \in 1..Len(chunking.chunks_info)}

SrcLabels ==
    UNION {{<<k, i>> : i \in 1..Len(chunking.srcs[k].types)} : k \in 1..Len(chunking.srcs)}

(* The sources start and end with a token that is no label, as the bos and
   eos tokens of a TokenizedSrc are. *)
SrcsDelimited ==
    \A k \in 1..Len(chunking.srcs) :
        LET src == chunking.srcs[k] IN
        /\ Len(src.tokenized_code) >= 2
        /\ \A i \in 1..Len(src.types_pos) :
                src.types_pos[i] \notin {0, Len(src.tokenized_code) - 1}

(* C23: when chunk_srcs returns, the n_labels of the chunks add up to the
   number of labels of the sources, and every label site of every source is
   a label of exactly one chunk. *)
C23_NoLabelLost ==
    (chunking.pc = "done" /\ SrcsDelimited) =>
        /\ Cardinality(ChunkLabels) = Cardinality(SrcLabels)
        /\ \A s \in SrcLabels :
            Cardinality({c \in ChunkLabels :
                /\ chunking.chunks_info[c[1]].src_ids[c[2]] = s[1] - 1
                /\ chunking.chunks_info[c[1]].annots_info[c[2]]
                        = chunking.srcs[s[1]].types_info[s[2]]}) = 1

---------------------------------------------------------------------------
(* SrcDataset.to_chunks, ChunkedDataset.verify_labels and
   ChunkedDataset.__getitem__ of src/src/spot/data.py.  The path of a label
   is the site field of its AnnotInfo. *)

MaxRequestLen == 2
MaxSubsets == 2

(* SrcDataset.srcs_with_labels *)
srcs_with_labels(all_srcs) == SelectSeq(all_srcs, LAMBDA s : Len(s.types) > 0)

(* to_chunks(tokenizer, ctx_args, ...) is called on SrcDataset(all_srcs). *)
NewDataset(all_srcs, args) ==
    [pc |-> "to_chunks", all_srcs |-> all_srcs, srcs |-> <<>>, ctx_args |-> args,
     all_tks |-> <<>>, chunk_tks |-> <<>>, chunk_outputs |-> <<>>, chunks |-> <<>>,
     chunks_info |-> <<>>, verified |-> "none", corrupted |-> <<>>, subsets |-> <<>>]

(* self.files[sid], files being the files of the srcs given to chunk_srcs. *)
FileOfMutantUnfiltered(ds, sid) == ds.all_srcs[sid + 1].file

FileOf(ds, sid) == ds.srcs[sid + 1].file

(* srcs.file2src(): the last src of all_srcs with the file, if any. *)
file2src(all_srcs, f) ==
    LET at == {k \in 1..Len(all_srcs) : all_srcs[k].file = f}
    IN IF at = {} THEN <<>> ELSE <<all_srcs[CHOOSE k \in at : \A j \in at : j <= k]>>

(* verify_labels, lines 882-884: the dict path -> type of a src. *)
src_path_map(src) ==
    [p \in {src.types_info[i].site : i \in 1..Len(src.types)} |->
        src.types[CHOOSE i \in 1..Len(src.types) :
            /\ src.types_info[i].site = p
            /\ \A j \in 1..Len(src.types) : src.types_info[j].site = p => j <= i]]

(* ChunkedDataset.verify_labels(srcs, tokenizer) on the given chunks_info:
   "ok", or the AssertionError of one of its four assertions. *)
verify_labels(ds, chunks_info) ==
    LET label_ok(r, a) ==
            LET info == chunks_info[r]
                found == file2src(ds.all_srcs, FileOf(ds, info.src_ids[a]))
            IN /\ found # <<>>
               /\ info.annots_info[a].site \in DOMAIN src_path_map(found[1])
               /\ src_path_map(found[1])[info.annots_info[a].site] = info.types[a]
    IN IF /\ \A k \in 1..Len(ds.all_srcs) :
                Cardinality(DOMAIN src_path_map(ds.all_srcs[k])) = Len(ds.all_srcs[k].types)
          /\ \A r \in 1..Len(chunks_info) :
                \A a \in 1..Len(chunks_info[r].types) : label_ok(r, a)
       THEN "ok" ELSE "AssertionError"

(* __getitem__, line 854: cid2id[bid], the last row holding chunk id bid. *)
RowOfMutantPosition(column, bid) == bid + 1

RowOf(column, bid) ==
    CHOOSE i \in 1..Len(column) :
        column[i] = bid /\ \A j \in (i + 1)..Len(column) : column[j] # bid

(* ChunkedDataset.__getitem__(chunk_ids) on the table rows and chunks_info
   of d: the dataset of the selected rows, or the error raised. *)
ChunkedDataset_getitem(d, chunk_ids) ==
    LET column == [i \in 1..Len(d.chunks) |-> d.chunks[i].chunk_id]
        ids == [r \in 1..Len(chunk_ids) |-> RowOf(column, chunk_ids[r])]
    IN IF \E r \in 1..Len(chunk_ids) : \A i \in 1..Len(column) : column[i] # chunk_ids[r]
       THEN [status |-> "KeyError", request |-> chunk_ids]
       ELSE IF \E r \in 1..Len(ids) : ids[r] \notin 1..Len(column)
       THEN [status |-> "IndexError", request |-> chunk_ids]
       ELSE [status |-> "ok", request |-> chunk_ids,
             chunks |-> [r \in 1..Len(ids) |-> d.chunks[ids[r]]],
             chunks_info |-> [r \in 1..Len(ids) |-> d.chunks_info[ids[r]]]]

(* to_chunks, lines 362-370: chunk_srcs is called on the srcs with labels. *)
ToChunks ==
    /\ chunking.pc = "to_chunks"
    /\ chunking' = [chunking EXCEPT !.pc = "start",
                                    !.srcs = srcs_with_labels(chunking.all_srcs)]
    /\ UNCHANGED DaggerVars

(* to_chunks, lines 371-372: verify_labels, then the dataset is returned. *)
VerifyAndReturn ==
    /\ chunking.pc = "done"
    /\ chunking.verified = "none"
    /\ LET v == verify_labels(chunking, chunking.chunks_info)
       IN chunking' = [chunking EXCEPT !.verified = v,
                            !.pc = IF v = "ok" THEN "returned" ELSE "raised"]
    /\ UNCHANGED DaggerVars

(* chunks_info with label a of chunk r given another type or another site. *)
Corrupted(chunks_info, r, a, what) ==
    [chunks_info EXCEPT
        ![r].types[a] = IF what = "type" THEN CHOOSE ty \in PyTypes : ty # @ ELSE @,
        ![r].annots_info[a].site = IF what = "site" THEN @ + MaxSrcLen + 1 ELSE @]

(* verify_labels is called on a dataset whose chunks_info does not match the
   sources in one label. *)
VerifyCorrupted ==
    /\ chunking.pc = "returned"
    /\ chunking.subsets = <<>>
    /\ \E c \in ChunkLabels, what \in {"type", "site"} :
        LET bad == Corrupted(chunking.chunks_info, c[1], c[2], what)
        IN chunking' = [chunking EXCEPT !.pc = "checked", !.corrupted = bad,
                                        !.verified = verify_labels(chunking, bad)]
    /\ UNCHANGED DaggerVars

(* dataset[chunk_ids] on the dataset returned last, for ids of the dataset
   to_chunks returned. *)
Subset ==
    /\ chunking.pc = "returned"
    /\ Len(chunking.subsets) < MaxSubsets
    /\ \E n \in 1..MaxRequestLen :
        \E chunk_ids \in [1..n -> {chunking.chunks[i].chunk_id : i \in 1..Len(chunking.chunks)}] :
            LET d == IF chunking.subsets = <<>> THEN chunking
                     ELSE chunking.subsets[Len(chunking.subsets)]
                sub == ChunkedDataset_getitem(d, chunk_ids)
            IN chunking' = [chunking EXCEPT !.subsets = Append(@, sub),
                                !.pc = IF sub.status = "ok" THEN @ ELSE "raised"]
    /\ UNCHANGED DaggerVars

(* The datasets: short sources, some without labels, under small CtxArgs. *)
DatasetCtxArgs == {a \in SmallCtxArgs : ~a.types_in_ctx}

InitDataset ==
    /\ cfg = [entry |-> "dataset", n_labels |-> [f \in Files |-> 0], concurrency |-> 1,
              replay_buffer_size |-> 0, grad_accum_steps |-> 1, save_every |-> 0,
              saves_per_epoch |-> 1, expert_rate |-> 0, has_callback |-> FALSE]
    /\ InitState
    /\ patching = NoPatching
    /\ loading = NoLoading
    /\ building = NoBuilding
    /\ decoding = NoDecoding
    /\ \E srcs \in ShortSrcs, args \in DatasetCtxArgs : chunking = NewDataset(srcs, args)

NextDataset ==
    \/ ToChunks
    \/ Concat
    \/ Slide
    \/ ProcessChunk
    \/ Collect
    \/ VerifyAndReturn
    \/ VerifyCorrupted
    \/ Subset

SpecDataset == InitDataset /\ [][NextDataset]_vars

---------------------------------------------------------------------------
(* Properties of the datasets (SpecDataset) *)

(* The rows of the dataset to_chunks returned that hold chunk id bid. *)
RowsWithId(bid) == {i \in 1..Len(chunking.chunks) : chunking.chunks[i].chunk_id = bid}

(* The dataset that subsetting number k was applied to. *)
SubsetOf(k) == IF k = 1 THEN chunking ELSE chunking.subsets[k - 1]

(* C24: dataset[chunk_ids] succeeds when the dataset holds every requested
   id, and then has one row per requested id, in the requested order, row r
   being the row of the original dataset whose chunk_id is chunk_ids[r],
   with that row's SrcChunkInfo; table and chunks_info have the same length;
   and a subset subsetted by the same ids is the same dataset. *)
C24_SubsetById ==
    /\ Len(chunking.chunks) = Len(chunking.chunks_info)
    /\ \A k \in 1..Len(chunking.subsets) :
        LET sub == chunking.subsets[k]
            from == SubsetOf(k)
        IN /\ sub.status = "KeyError" <=>
                    \E bid \in {sub.request[r] : r \in 1..Len(sub.request)} :
                        \A i \in 1..Len(from.chunks) : from.chunks[i].chunk_id # bid
           /\ sub.status \in {"ok", "KeyError"}
           /\ sub.status = "ok" =>
                /\ Len(sub.chunks) = Len(sub.request)
                /\ Len(sub.chunks_info) = Len(sub.chunks)
                /\ \A r \in 1..Len(sub.request) :
                    /\ sub.chunks[r].chunk_id = sub.request[r]
                    /\ \E i \in RowsWithId(sub.request[r]) :
                        /\ RowsWithId(sub.request[r]) = {i}
                        /\ sub.chunks[r] = chunking.chunks[i]
                        /\ sub.chunks_info[r] = chunking.chunks_info[i]
                /\ (k > 1 /\ sub.request = from.request) =>
                        /\ sub.chunks = from.chunks
                        /\ sub.chunks_info = from.chunks_info

(* A dataset whose first row is not chunk 0 was subsetted by two ids in
   descending order, and the subset by the same ids again. *)
C24_Witness ==
    /\ Len(chunking.subsets) = 2
    /\ chunking.subsets[2].status = "ok"
    /\ chunking.subsets[2].request = chunking.subsets[1].request
    /\ Len(chunking.subsets[1].request) = 2
    /\ chunking.subsets[1].request[1] > chunking.subsets[1].request[2]
    /\ chunking.chunks[1].chunk_id # 0

(* Label a of chunk r of chunks_info is a label of the source its src id
   names, with the type recorded there. *)
LabelInSource(chunks_info, r, a) ==
    LET src == chunking.srcs[chunks_info[r].src_ids[a] + 1]
    IN \E i \in 1..Len(src.types) :
        /\ src.types_info[i] = chunks_info[r].annots_info[a]
        /\ src.types[i] = chunks_info[r].types[a]

(* C25: every label of every chunk to_chunks builds is a label, with the
   same type, of the source at its src id, and the verify_labels of
   to_chunks passes and the dataset is returned; verify_labels on a dataset
   with a label whose site is not in its file or whose type differs fails
   with an AssertionError. *)
C25_LabelsVerified ==
    /\ \A c \in ChunkLabels : LabelInSource(chunking.chunks_info, c[1], c[2])
    /\ chunking.pc = "done" => verify_labels(chunking, chunking.chunks_info) = "ok"
    /\ chunking.pc = "returned" => chunking.verified = "ok"
    /\ chunking.pc = "checked" =>
        /\ \E c \in ChunkLabels : ~LabelInSource(chunking.corrupted, c[1], c[2])
        /\ chunking.verified = "AssertionError"

(* to_chunks has returned the chunks of a dataset whose first file has no
   label, and verify_labels has failed on a corrupted copy of them. *)
C25_Witness ==
    /\ chunking.pc = "checked"
    /\ chunking.verified = "AssertionError"
    /\ Len(chunking.all_srcs) = 2
    /\ Len(chunking.all_srcs[1].types) = 0
    /\ Len(chunking.all_srcs[1].tokenized_code) > 0
    /\ Len(chunking.chunks) > 0

---------------------------------------------------------------------------
(* _TokenizedSrcHelper.dict_to_tokenized_src of src/src/spot/data.py.  A text
   is a sequence of words; tokenizer.encode(text, add_special_tokens=False)
   gives one token per word.  No word of a source text or of a type spells
   a special token of the tokenizer. *)

MaxTypes == 2
MaxSegs == 3
MaxSegLen == 1

Words == {"x", "y"}

(* tkn.encode(text, add_special_tokens=False) *)
encode(text) ==
    [i \in 1..Len(text) |->
        IF text[i] = "int" THEN Tk("ty", 1)
        ELSE IF text[i] = "str" THEN Tk("ty", 2)
        ELSE IF text[i] = "[]" THEN Tk("ty", 3)
        ELSE IF text[i] = "Text" THEN Tk("ty", 4)
        ELSE IF text[i] = "y" THEN Tk("tk", 1)
        ELSE Tk("tk", 0)]

(* str(ty) of a PythonType, as a text. *)
TypeText(ty) == IF ty = "int" THEN <<"int">> ELSE <<"str", "[]">>

(* The annotation texts that parse to the type ty. *)
AnnotTexts(ty) == IF ty = "int" THEN {<<"int">>} ELSE {<<"str", "[]">>, <<"Text">>}

(* dict_to_tokenized_src, line 199 *)
IsPredictionTargetMutantAlways(d, i) == TRUE

IsPredictionTarget(d, i) == d.is_label.kind = "None" \/ d.is_label.flags[i]

(* dict_to_tokenized_src, line 207: the tokens of a revealed type. *)
RevealedTksMutantTypeText(d, k) == encode(TypeText(d.types[k]))

RevealedTks(d, k) == encode(d.types_str[k])

(* all_tks after iteration i of the loop of lines 197-207 (i = 0: before
   it). *)
TksAfter(d, i) ==
    <<bos_token_id>>
        \o Flatten([k \in 1..i |->
                encode(d.code_segs[k])
                    \o (IF IsPredictionTarget(d, k) THEN <<mask_token_id>>
                        ELSE RevealedTks(d, k))])

(* dict_to_tokenized_src, line 200: r.types_pos.append(len(all_tks)) in
   iteration i, after the tokens of segs[i] were added. *)
LabelPosMutantAfterMask(d, i) == Len(TksAfter(d, i - 1) \o encode(d.code_segs[i])) + 1

LabelPos(d, i) == Len(TksAfter(d, i - 1) \o encode(d.code_segs[i]))

(* dict_to_tokenized_src, line 187: assert len(segs) == len(types) + 1 *)
SegsMatchMutantAtLeast(d) == Len(d.code_segs) >= Len(d.types) + 1

SegsMatch(d) == Len(d.code_segs) = Len(d.types) + 1

(* _TokenizedSrcHelper.dict_to_tokenized_src(d): the TokenizedSrc, or the
   exception raised. *)
dict_to_tokenized_src(d) ==
    LET n == Len(d.types)
        targets == SelectSeq([i \in 1..n |-> i], LAMBDA i : IsPredictionTarget(d, i))
    IN IF d.is_label.kind = "missing"
       THEN [status |-> "ValueError"]
       ELSE IF ~SegsMatch(d)
       THEN [status |-> "AssertionError"]
       ELSE IF d.is_label.kind = "list" /\ Len(d.is_label.flags) < n
       THEN [status |-> "IndexError"]
       ELSE [status |-> "ok",
             types |-> [k \in 1..Len(targets) |-> d.types[targets[k]]],
             types_pos |-> [k \in 1..Len(targets) |-> LabelPos(d, targets[k])],
             types_str |-> [k \in 1..Len(targets) |-> d.types_str[targets[k]]],
             types_tks |-> [k \in 1..Len(targets) |-> encode(TypeText(d.types[targets[k]]))],
             types_info |-> [k \in 1..Len(targets) |-> d.annots_info[targets[k]]],
             tokenized_code |-> TksAfter(d, n) \o encode(d.code_segs[Len(d.code_segs)])
                                    \o <<eos_token_id>>]

(* dict_to_tokenized_src(d) is called. *)
NewBuilding(d) == [pc |-> "called", d |-> d, r |-> [status |-> "none"]]

DataIdle == <<cfg, mainPc, taskPc, sem, waiters, rs, fut, model_queue, mrun, replay_buffer,
      grad_counter, save_counter, params, n_saves, log_lock, labels_counter, pushed,
      trained, updates, done_order, results, trace, chunking, patching, loading,
      eval_result>>

(* dict_to_tokenized_src, lines 166-211 *)
Build ==
    /\ building.pc = "called"
    /\ LET r == dict_to_tokenized_src(building.d)
       IN building' = [building EXCEPT !.r = r,
                            !.pc = IF r.status = "ok" THEN "returned" ELSE "raised"]
    /\ UNCHANGED <<DataIdle, decoding>>

(* The masked-source records: any number of segments up to MaxSegs, types
   with one of their annotation texts, and is_label absent ("missing"),
   None or a list of flags. *)
Texts == UNION {[1..n -> Words] : n \in 0..MaxSegLen}

Records ==
    UNION {
        {[code_segs |-> segs, types |-> tys, types_str |-> strs,
          annots_info |-> [i \in 1..Len(tys) |-> [src |-> 0, site |-> i - 1]],
          is_label |-> flags] :
            segs \in UNION {[1..m -> Texts] : m \in 0..MaxSegs},
            strs \in {s \in [1..Len(tys) -> UNION {AnnotTexts(ty) : ty \in PyTypes}] :
                            \A i \in 1..Len(tys) : s[i] \in AnnotTexts(tys[i])},
            flags \in {[kind |-> k, flags |-> <<>>] : k \in {"missing", "None"}}
                        \cup {[kind |-> "list", flags |-> fl] :
                                    fl \in UNION {[1..m -> BOOLEAN] : m \in 0..MaxTypes}}} :
        tys \in UNION {[1..n -> PyTypes] : n \in 0..MaxTypes}}

InitBuild ==
    /\ cfg = [entry |-> "build", n_labels |-> [f \in Files |-> 0], concurrency |-> 1,
              replay_buffer_size |-> 0, grad_accum_steps |-> 1, save_every |-> 0,
              saves_per_epoch |-> 1, expert_rate |-> 0, has_callback |-> FALSE]
    /\ InitState
    /\ patching = NoPatching
    /\ loading = NoLoading
    /\ chunking = NoChunking
    /\ decoding = NoDecoding
    /\ \E d \in Records : building = NewBuilding(d)

NextBuild == Build

SpecBuild == InitBuild /\ [][NextBuild]_vars

---------------------------------------------------------------------------
(* Properties of the builder (SpecBuild) *)

(* C26: every TokenizedSrc dict_to_tokenized_src returns has types,
   types_pos, types_str, types_tks and types_info of one length, one entry
   per prediction target; its types_pos go strictly up and each is the index
   of a mask token of tokenized_code; and tokenized_code starts with the bos
   token and ends with the eos token. *)
C26_BuiltSrcWellFormed ==
    building.pc = "returned" =>
        LET r == building.r
            code == r.tokenized_code
            n == Len(r.types)
        IN /\ Len(r.types_pos) = n
           /\ Len(r.types_str) = n
           /\ Len(r.types_tks) = n
           /\ Len(r.types_info) = n
           /\ n = Cardinality({i \in 1..Len(building.d.types) :
                                    IsPredictionTarget(building.d, i)})
           /\ \A k \in 1..(n - 1) : r.types_pos[k] < r.types_pos[k + 1]
           /\ \A k \in 1..n :
                /\ r.types_pos[k] \in 0..(Len(code) - 1)
                /\ code[r.types_pos[k] + 1] = mask_token_id
           /\ Len(code) >= 2
           /\ code[1] = bos_token_id
           /\ code[Len(code)] = eos_token_id

(* A source of two labels, built with a list of is_label flags. *)
C26_Witness ==
    /\ building.pc = "returned"
    /\ Len(building.r.types) = 2
    /\ building.d.is_label.kind = "list"
    /\ building.r.types_pos[2] > building.r.types_pos[1] + 1

(* C27: a record whose number of segments is not its number of types + 1 is
   rejected with an exception, and no TokenizedSrc is returned. *)
C27_SegmentCountChecked ==
    (building.pc # "called" /\ Len(building.d.code_segs) # Len(building.d.types) + 1) =>
        /\ building.pc = "raised"
        /\ building.r.status \in {"AssertionError", "ValueError"}
        /\ building.r.status = "ValueError" <=> building.d.is_label.kind = "missing"
        /\ DOMAIN building.r = {"status"}

(* A record with one segment too many was rejected by the assertion. *)
C27_Witness ==
    /\ building.pc = "raised"
    /\ building.r.status = "AssertionError"
    /\ Len(building.d.code_segs) = Len(building.d.types) + 2
    /\ Len(building.d.types) >= 1

(* tokenized_code without its first and last token, the token at place
   places[k] replaced by the tokens of strs[k]; a place beyond the strings
   keeps its token. *)
Substituted(code, places, strs) ==
    LET inner == SubSeq(code, 2, Len(code) - 1)
        rank(p) == Cardinality({k \in 1..Len(places) : places[k] <= p})
    IN Flatten([q \in 1..Len(inner) |->
            IF \E k \in 1..Len(places) : places[k] = q + 1
            THEN (IF rank(q + 1) <= Len(strs) THEN encode(strs[rank(q + 1)])
                  ELSE <<inner[q]>>)
            ELSE <<inner[q]>>])

(* The tokens of the segments interleaved with the tokens of the type
   strings. *)
OriginalTks(d) ==
    Flatten([i \in 1..Len(d.types) |-> encode(d.code_segs[i]) \o encode(d.types_str[i])])
        \o encode(d.code_segs[Len(d.code_segs)])

(* The places of the mask tokens of a token sequence, in order. *)
MaskPlacesOf(code) ==
    SelectSeq([p \in 1..Len(code) |-> p], LAMBDA p : code[p] = mask_token_id)

(* C28: in every built source the mask tokens of tokenized_code are the
   tokens at its types_pos, and replacing them, in order, by the tokens of
   the corresponding types_str and dropping bos and eos gives the tokens of
   the segments interleaved with the tokens of the type strings. *)
C28_RoundTrip ==
    building.pc = "returned" =>
        /\ MaskPlacesOf(building.r.tokenized_code)
                = [k \in 1..Len(building.r.types_pos) |-> building.r.types_pos[k] + 1]
        /\ Substituted(building.r.tokenized_code, MaskPlacesOf(building.r.tokenized_code),
                       building.r.types_str) = OriginalTks(building.d)

(* A source with a label and a revealed type written otherwise than
   str(type) prints it, between segments of different words. *)
C28_Witness ==
    /\ building.pc = "returned"
    /\ Len(building.r.types) = 1
    /\ Len(building.d.types) = 2
    /\ \E i \in 1..2 : ~IsPredictionTarget(building.d, i) /\ building.d.types_str[i] = <<"Text">>
    /\ building.d.code_segs[1] = <<"x">>
    /\ building.d.code_segs[3] = <<"y">>

---------------------------------------------------------------------------
(* output_ids_as_seqs and output_ids_as_types of src/src/spot/data.py.  The
   pad token has id 0 and the ignored label id is negative ("ignore"); every
   other token id is positive. *)

MaxOutLen == 3
MaxNTypes == 2

(* PythonType.Any() *)
AnyType == "Any"

(* output_ids_as_seqs, line 941: tk <= 0 *)
NotPositive(tk) == tk.kind \in {"pad", "ignore"}

(* tokenizer.additional_special_tokens_ids[j] raises IndexError outside
   -len .. len - 1. *)
IndexInRange(j) == j \in (0 - NumMarkers)..(NumMarkers - 1)

(* output_ids_as_seqs, lines 938 and 949: the marker that ends the current
   sequence. *)
MarkOfMutantFixed(seq_id) == additional_special_tokens_ids(LastMarker)

MarkOf(seq_id) == additional_special_tokens_ids(LastMarker - seq_id)

(* tokenizer.decode(seq, skip_special_tokens=True): the words of the tokens
   that are not special tokens. *)
decode(seq) ==
    LET plain == SelectSeq(seq, LAMBDA tk : tk.kind \in {"ty", "tk"})
    IN [i \in 1..Len(plain) |->
            IF plain[i].kind = "tk" THEN (IF plain[i].n = 1 THEN "y" ELSE "x")
            ELSE IF plain[i].n = 1 THEN "int"
            ELSE IF plain[i].n = 2 THEN "str"
            ELSE IF plain[i].n = 3 THEN "[]"
            ELSE "Text"]

(* output_ids_as_types, lines 966-970: the type the text parses to, Any when
   ast.parse or parse_type_from_ast raises. *)
parse_type(text) ==
    IF \E ty \in PyTypes : text \in AnnotTexts(ty)
    THEN CHOOSE ty \in PyTypes : text \in AnnotTexts(ty)
    ELSE AnyType

(* output_ids_as_types, lines 961-975: the first n_types sequences parsed,
   filled up with Any. *)
TypesOfSeqs(seqs, n_types) ==
    [k \in 1..n_types |-> IF k <= Len(seqs) THEN parse_type(decode(seqs[k])) ELSE AnyType]

(* output_ids_as_types(output_ids, tokenizer, n_types) is called; `of` is
   the list of types output_ids was encoded from, if it was. *)
NewDecoding(output_ids, n_types, of) ==
    [pc |-> "scan", output_ids |-> output_ids, n_types |-> n_types, of |-> of,
     i |-> 0, seq_id |-> 0, buff |-> <<>>, seqs |-> <<>>, types |-> <<>>, error |-> "none"]

(* output_ids_as_seqs, lines 940-949: one iteration of the loop. *)
Scan ==
    /\ decoding.pc = "scan"
    /\ decoding.i < Len(decoding.output_ids)
    /\ LET tk == decoding.output_ids[decoding.i + 1]
       IN IF NotPositive(tk)
          THEN decoding' = [decoding EXCEPT !.i = @ + 1]
          ELSE IF tk # MarkOf(decoding.seq_id)
          THEN decoding' = [decoding EXCEPT !.i = @ + 1, !.buff = Append(@, tk)]
          ELSE IF IndexInRange(LastMarker - (decoding.seq_id + 1))
          THEN decoding' = [decoding EXCEPT !.i = @ + 1, !.buff = <<>>,
                                            !.seqs = Append(@, decoding.buff),
                                            !.seq_id = @ + 1]
          ELSE decoding' = [decoding EXCEPT !.buff = <<>>,
                                            !.seqs = Append(@, decoding.buff),
                                            !.seq_id = @ + 1,
                                            !.pc = "raised", !.error = "IndexError"]
    /\ UNCHANGED <<DataIdle, building>>

(* output_ids_as_seqs, lines 950-951, and output_ids_as_types, lines
   959-977. *)
Finish ==
    /\ decoding.pc = "scan"
    /\ decoding.i = Len(decoding.output_ids)
    /\ LET seqs == Tail(Append(decoding.seqs, decoding.buff))
       IN decoding' = [decoding EXCEPT !.pc = "returned", !.seqs = seqs,
                                       !.types = TypesOfSeqs(seqs, decoding.n_types)]
    /\ UNCHANGED <<DataIdle, building>>

(* The label sequence process_chunk builds for a list of types. *)
EncodedTypes(tys) == label_ids([i \in 1..Len(tys) |-> [tks |-> TypeTks(tys[i])]])

NotEncoded == [encoded |-> FALSE, types |-> <<>>]

(* The outputs: any short sequence of pad, ignored, bos, eos, type and
   marker tokens with any n_types; the label sequence of a short list of
   types and of a list of NumMarkers types; and the markers in the order
   in which output_ids_as_seqs expects them, two times over. *)
OutTokens ==
    {pad_token_id, Tk("ignore", 0), bos_token_id, eos_token_id, Tk("ty", 1), Tk("ty", 2),
     Tk("ty", 3), MarkOf(0), MarkOf(1), MarkOf(LastMarker)}

ShortOutputs == UNION {[1..n -> OutTokens] : n \in 0..MaxOutLen}

TypeLists ==
    UNION {[1..n -> PyTypes] : n \in 0..MaxTypes}
        \cup {[i \in 1..NumMarkers |-> Label(0, i)]}

MarkersTwice == [k \in 1..(2 * NumMarkers) |-> MarkOf(k - 1)]

InitDecode ==
    /\ cfg = [entry |-> "decode", n_labels |-> [f \in Files |-> 0], concurrency |-> 1,
              replay_buffer_size |-> 0, grad_accum_steps |-> 1, save_every |-> 0,
              saves_per_epoch |-> 1, expert_rate |-> 0, has_callback |-> FALSE]
    /\ InitState
    /\ patching = NoPatching
    /\ loading = NoLoading
    /\ chunking = NoChunking
    /\ building = NoBuilding
    /\ \/ \E ids \in ShortOutputs, n \in 0..MaxNTypes :
            decoding = NewDecoding(ids, n, NotEncoded)
       \/ \E tys \in TypeLists :
            decoding = NewDecoding(EncodedTypes(tys), Len(tys), [encoded |-> TRUE, types |-> tys])
       \/ \E n \in 0..MaxNTypes : decoding = NewDecoding(MarkersTwice, n, NotEncoded)

NextDecode ==
    \/ Scan
    \/ Finish

SpecDecode == InitDecode /\ [][NextDecode]_vars

---------------------------------------------------------------------------
(* Properties of the decoding (SpecDecode) *)

(* C29: output_ids_as_types raises on no output sequence and no n_types,
   and returns n_types entries: the first sequences parsed, Any for one that
   does not parse as a type, Any for every entry the output has no sequence
   for. *)
C29_DecodeNeverThrows ==
    /\ decoding.pc # "raised"
    /\ decoding.pc = "returned" =>
        /\ Len(decoding.types) = decoding.n_types
        /\ \A k \in 1..Len(decoding.types) :
            /\ decoding.types[k] \in PyTypes \cup {AnyType}
            /\ k > Len(decoding.seqs) => decoding.types[k] = AnyType
            /\ (k <= Len(decoding.seqs)
                    /\ \A ty \in PyTypes : decode(decoding.seqs[k]) \notin AnnotTexts(ty))
                    => decoding.types[k] = AnyType

(* C30: decoding the label sequence process_chunk builds for a list of at
   most 100 types, with n_types the length of the list, returns the list. *)
C30_DecodeInvertsEncode ==
    (decoding.pc = "returned" /\ decoding.of.encoded) =>
        /\ Len(decoding.of.types) <= 100
        /\ decoding.types = decoding.of.types

(* The label sequence of 100 types was decoded. *)
C30_Witness ==
    /\ decoding.pc = "returned"
    /\ decoding.of.encoded
    /\ Len(decoding.of.types) = 100
    /\ \E k \in 1..100 : decoding.types[k] = "str"

---------------------------------------------------------------------------
(* Label sequences and central windows of the chunker (SpecChunk) *)

(* The element of the window at its k-th label, k = 1, 2, ... *)
KthLabel(win, k) ==
    win[CHOOSE p \in LabelPlaces(win) : Cardinality({q \in LabelPlaces(win) : q <= p}) = k]

(* C35: the label sequence of every emitted chunk is the begin marker, then
   for each label i of the central window, in window order, the marker 99-i
   followed by the sub-tokens of that label, then the end marker; the number
   of markers of the label sequence is len(SrcChunkInfo.types), which is the
   stored n_labels; and types, annots_info and src_ids have that length. *)
C35_LabelSequence ==
    /\ \A j \in Emitted :
        LET win == WindowIn(j)
            n == Cardinality(LabelPlaces(win))
            out == chunking.chunk_outputs[j]
        IN /\ out.labels =
                <<Tk("bos", 0)>>
                    \o Flatten([k \in 1..n |->
                                    <<Tk("extra_id", 99 - (k - 1))>> \o KthLabel(win, k).tks])
                    \o <<Tk("eos", 0)>>
           /\ Len(MarkersOf(out.labels)) = Len(out.meta.types)
           /\ Len(out.meta.annots_info) = Len(out.meta.types)
           /\ Len(out.meta.src_ids) = Len(out.meta.types)
           /\ \A k \in 1..n :
                /\ out.meta.types[k] = KthLabel(win, k).ty
                /\ out.meta.annots_info[k] = KthLabel(win, k).info
                /\ out.meta.src_ids[k] = KthLabel(win, k).src_id
    /\ Len(chunking.chunks) = Len(chunking.chunks_info)
    /\ \A r \in 1..Len(chunking.chunks) :
        /\ chunking.chunks[r].n_labels = Len(chunking.chunks_info[r].types)
        /\ chunking.chunks[r].n_labels = Len(MarkersOf(chunking.chunks[r].labels))
        /\ Len(chunking.chunks_info[r].annots_info) = chunking.chunks[r].n_labels
        /\ Len(chunking.chunks_info[r].src_ids) = chunking.chunks[r].n_labels

(* chunk_srcs has returned a chunk of two labels of different types, taken
   from two sources. *)
C35_Witness ==
    /\ chunking.pc = "done"
    /\ \E r \in 1..Len(chunking.chunks) :
        /\ chunking.chunks[r].n_labels = 2
        /\ chunking.chunks_info[r].types[1] # chunking.chunks_info[r].types[2]
        /\ chunking.chunks_info[r].src_ids = <<0, 1>>
        /\ Len(chunking.chunks[r].labels) = 2 + 2 + 3

(* The positions of all_tks that the central window of candidate j covers
   (0-based), and the positions candidate j covers in all. *)
CentralSpan(j) ==
    LET args == chunking.ctx_args
        start == (j - 1) * window_size(args) + args.left_margin
    IN {g \in start..(start + window_size(args) - 1) : g < Len(chunking.all_tks)}

CandidateSpan(j) ==
    LET args == chunking.ctx_args
        start == (j - 1) * window_size(args)
    IN {g \in start..(start + args.ctx_size - 1) : g < Len(chunking.all_tks)}

(* C39: the central window of candidate i is the tokens of all_tks from
   i*window_size + left_margin on, window_size of them; the central windows
   of different candidates share no position; so no label site is among the
   labels of two chunks, or twice among the labels of one. *)
C39_TargetOfOneChunk ==
    /\ \A j \in 1..Len(chunking.chunk_tks) :
        /\ \A g \in CentralSpan(j) :
                WindowIn(j)[g - ((j - 1) * window_size(chunking.ctx_args)
                                    + chunking.ctx_args.left_margin) + 1]
                    = chunking.all_tks[g + 1]
        /\ Cardinality(LabelPlaces(WindowIn(j))) =
                Cardinality({g \in CentralSpan(j) : chunking.all_tks[g + 1].kind = "label"})
        /\ \A i \in 1..Len(chunking.chunk_tks) : i # j => CentralSpan(i) \cap CentralSpan(j) = {}
    /\ \A i, j \in Emitted :
        \A a \in 1..Len(chunking.chunk_outputs[i].meta.annots_info) :
        \A b \in 1..Len(chunking.chunk_outputs[j].meta.annots_info) :
            chunking.chunk_outputs[i].meta.annots_info[a]
                    = chunking.chunk_outputs[j].meta.annots_info[b]
                => (i = j /\ a = b)

(* Two chunks have been emitted, and a label of the first lies in the left
   margin of the second candidate. *)
C39_Witness ==
    \E i, j \in Emitted :
        /\ i < j
        /\ chunking.ctx_args.left_margin >= 1
        /\ \E g \in CandidateSpan(j) \ CentralSpan(j) :
            /\ g \in CentralSpan(i)
            /\ chunking.all_tks[g + 1].kind = "label"

---------------------------------------------------------------------------
(* Labels and revealed sites of the builder (SpecBuild) *)

(* Site i of the record is to be predicted: the record has no flag list, or
   its flag i is set. *)
Flagged(d, i) == d.is_label.kind = "None" \/ (d.is_label.kind = "list" /\ d.is_label.flags[i])

(* The length of the token stream when site i is reached: the bos token,
   the segments up to segment i, and for each earlier site one mask token
   or the tokens of its type string. *)
RECURSIVE StreamLenAt(_, _)
StreamLenAt(d, i) ==
    IF i = 1 THEN 1 + Len(d.code_segs[1])
    ELSE StreamLenAt(d, i - 1)
            + (IF Flagged(d, i - 1) THEN 1 ELSE Len(d.types_str[i - 1]))
            + Len(d.code_segs[i])

(* C36: the labels of the source dict_to_tokenized_src builds are the sites
   flagged as prediction targets (all sites without a flag list), in source
   order, with the type, type string and info of the site; the position of
   a label is the length of the token stream just before its mask token,
   which is the one token the site adds; a revealed site adds the tokens of
   its type string at its place and no label; and the code holds no other
   mask token. *)
C36_LabelsAreFlaggedSites ==
    building.pc = "returned" =>
        LET d == building.d
            r == building.r
            flagged == {i \in 1..Len(d.types) : Flagged(d, i)}
            rank(i) == Cardinality({m \in flagged : m <= i})
        IN /\ Len(r.types) = Cardinality(flagged)
           /\ \A i \in flagged :
                /\ r.types[rank(i)] = d.types[i]
                /\ r.types_str[rank(i)] = d.types_str[i]
                /\ r.types_info[rank(i)] = d.annots_info[i]
                /\ r.types_pos[rank(i)] = StreamLenAt(d, i)
                /\ r.tokenized_code[StreamLenAt(d, i) + 1] = Tk("mask", 0)
           /\ \A i \in (1..Len(d.types)) \ flagged :
                /\ SubSeq(r.tokenized_code, StreamLenAt(d, i) + 1,
                          StreamLenAt(d, i) + Len(d.types_str[i])) = encode(d.types_str[i])
                /\ \A k \in 1..Len(r.types_info) : r.types_info[k] # d.annots_info[i]
           /\ Cardinality({p \in 1..Len(r.tokenized_code) : r.tokenized_code[p] = Tk("mask", 0)})
                = Cardinality(flagged)

(* A source was built from a record whose first site is revealed and whose
   second is a label that follows a non-empty segment. *)
C36_Witness ==
    /\ building.pc = "returned"
    /\ building.d.is_label.kind = "list"
    /\ Len(building.d.types) = 2
    /\ building.d.is_label.flags[1] = FALSE
    /\ building.d.is_label.flags[2] = TRUE
    /\ Len(building.d.types_str[1]) = 2
    /\ Len(building.d.code_segs[2]) = 1
    /\ building.r.types_pos = <<4 + Len(building.d.code_segs[1])>>

---------------------------------------------------------------------------
(* The arguments of the type check and of the regeneration (SpecRollout) *)

(* The calls of type_check_src_in_project and get_typechecked_src that are
   running get the source rollout_on_src was called with and the
   assignment of the labels 0..t, which is the rollout's current one. *)
CheckedWithFullAssignment ==
    \A f \in Files :
        (fut[f].st = "pending" /\ fut[f].kind \in {"check", "regen"}) =>
            /\ fut[f].arg.src = OriginalSrc(f)
            /\ fut[f].arg.t = rs[f].t
            /\ DOMAIN fut[f].arg.assignment = 0..rs[f].t
            /\ fut[f].arg.assignment = rs[f].type_assignment
            /\ fut[f].kind = "regen" => fut[f].arg.check_r.current_code = rs[f].type_assignment

(* Every regenerated source is a new value that carries the assignment of
   its round; none of them is the source the rollout started from. *)
NewInstanceEachRound ==
    \A f \in Files : \A k \in 1..Len(rs[f].src_seq) :
        /\ rs[f].src_seq[k].file = f
        /\ DOMAIN rs[f].src_seq[k].prev_types = 0..(k - 1)
        /\ rs[f].src_seq[k] # OriginalSrc(f)
        /\ \A j \in 1..(k - 1) : rs[f].src_seq[j] # rs[f].src_seq[k]

(* A step keeps every entry the assignment has. *)
EntriesKept ==
    \A f \in Files : \A k \in DOMAIN rs[f].type_assignment :
        /\ k \in DOMAIN rs'[f].type_assignment
        /\ rs'[f].type_assignment[k] = rs[f].type_assignment[k]

(* C34: in step t of a rollout the type checker and the regeneration are
   called with the source the rollout was given and with the current
   assignment, whose keys are exactly 0..t; no step changes an entry the
   assignment already has; and every round appends a new source, different
   from the original and from those of the earlier rounds. *)
C34_FullAssignmentFromOriginal ==
    /\ []CheckedWithFullAssignment
    /\ []NewInstanceEachRound
    /\ [][EntriesKept]_vars

(* The type check of the second label is running on the original source
   with two entries, after the first round gave a source with diagnostics. *)
C34_Witness ==
    \E f \in Files :
        /\ fut[f].st = "pending"
        /\ fut[f].kind = "check"
        /\ fut[f].arg.t = 1
        /\ DOMAIN fut[f].arg.assignment = {0, 1}
        /\ rs[f].new_src.errors # <<>>
        /\ rs[f].new_src # fut[f].arg.src

---------------------------------------------------------------------------
(* eval_on_data of src/src/spot/dagger.py: rollout_on_src on every file of
   the dataset through throttled_async_run, with expert_rate 0.0 and the
   progress-bar callback; a file may have no label. *)

InitEval ==
    /\ cfg \in [entry : {"eval"},
                n_labels : [Files -> 0..MaxLabels],
                concurrency : 1..MaxConcurrency,
                replay_buffer_size : {0},
                grad_accum_steps : {1},
                save_every : {0},
                saves_per_epoch : {1},
                expert_rate : {0},
                has_callback : {TRUE}]
    /\ InitState
    /\ patching = NoPatching
    /\ loading = NoLoading
    /\ chunking = NoChunking
    /\ building = NoBuilding
    /\ decoding = NoDecoding

SpecEval == InitEval /\ [][NextRollout]_vars

(* C40: when every file of the dataset has a label, final_srcs and
   final_preds have one entry per finished rollout, entry i of both being
   of the same file: the last source of its rollout and one prediction per
   label, the types its rollout assigned; and eval_on_data returns them
   with exactly one entry per file, in whatever order the rollouts
   finished. *)
C40_EvalResultAligned ==
    (cfg.entry = "eval" /\ \A f \in Files : cfg.n_labels[f] >= 1) =>
        LET R == eval_result IN
        /\ Len(R.final_srcs) = Len(R.final_preds)
        /\ Len(R.final_srcs) = Len(done_order)
        /\ \A i \in 1..Len(R.final_srcs) :
            LET f == R.final_srcs[i].file IN
            /\ f = done_order[i]
            /\ R.final_srcs[i] = rs[f].src_seq[cfg.n_labels[f]]
            /\ DOMAIN R.final_srcs[i].prev_types = 0..(cfg.n_labels[f] - 1)
            /\ Len(R.final_preds[i]) = cfg.n_labels[f]
            /\ \A t \in 0..(cfg.n_labels[f] - 1) :
                    R.final_preds[i][t + 1] = rs[f].type_assignment[t]
        /\ mainPc # "raised"
        /\ mainPc = "returned" =>
            /\ Len(R.final_srcs) = NumFiles
            /\ \A f \in Files :
                    Cardinality({i \in 1..Len(R.final_srcs) : R.final_srcs[i].file = f}) = 1

(* eval_on_data has returned after the rollout of the second file, which
   has fewer labels than the first, finished first. *)
C40_Witness ==
    /\ cfg.entry = "eval"
    /\ mainPc = "returned"
    /\ cfg.n_labels[1] = 2
    /\ cfg.n_labels[2] = 1
    /\ done_order = <<2, 1>>
    /\ Len(eval_result.final_preds[1]) = 1
    /\ Len(eval_result.final_preds[2]) = 2

---------------------------------------------------------------------------
(* The feedback patcher of src/src/spot/data.py: patch_code_with_extra and
   _TokenizedSrcHelper.feedbacks_to_tokenized_src.  A code text is a
   sequence of words, a CodePosition is the index of a word (from 1) and a
   CodeRange [start, end) is a span of words.  A text is given by its
   items: plain words and annotations, an annotation having a structural
   path and the words of its type.  The word "?" is a syntax error. *)

MaxItems == 3
MaxPath == 2
MaxErrors == 2

(* SpecialNames.TypeMask *)
TypeMask == "SPOT_TYPE_MASK"

Word(w) == [kind |-> "word", text |-> <<w>>]

Annot(path, text) == [kind |-> "annot", path |-> path, text |-> text]

(* The text of the items. *)
CodeOf(items) == Flatten([i \in 1..Len(items) |-> items[i].text])

(* The position of the first word of item i. *)
StartOf(items, i) == Len(CodeOf(SubSeq(items, 1, i - 1))) + 1

(* cst.parse_module(code) raises on a syntax error. *)
ParsesMutantAlways(code) == TRUE

Parses(code) == \A p \in 1..Len(code) : code[p] # "?"

(* collect_user_annotations(m): the annotations present in the module, in
   source order, each with its path, its range and the text of its type. *)
collect_user_annotations(items) ==
    LET at == SelectSeq([i \in 1..Len(items) |-> i], LAMBDA i : items[i].kind = "annot")
    IN [k \in 1..Len(at) |->
            [path |-> items[at[k]].path,
             annot_range |-> [start |-> StartOf(items, at[k]),
                              end |-> StartOf(items, at[k]) + Len(items[at[k]].text)],
             text |-> items[at[k]].text]]

(* patch_code_with_extra, lines 983-990: the replacements, in the order in
   which they are appended.  predictions and errors are dicts, given as the
   sequences of their entries. *)
patch_replacesMutantErrorsFirst(predictions, errors) ==
    Flatten([k \in 1..Len(predictions) |->
                <<[range |-> predictions[k].range, prio |-> 1, text |-> <<TypeMask>>],
                  [range |-> [start |-> predictions[k].range.start,
                              end |-> predictions[k].range.start],
                   prio |-> 2, text |-> <<"/*">> \o predictions[k].text \o <<"*/">>]>>])
        \o [k \in 1..Len(errors) |->
                [range |-> [start |-> errors[k].pos, end |-> errors[k].pos],
                 prio |-> 0, text |-> <<"/*", "error:">> \o errors[k].msg \o <<"*/">>]]

patch_replaces(predictions, errors) ==
    Flatten([k \in 1..Len(predictions) |->
                <<[range |-> predictions[k].range, prio |-> 1, text |-> <<TypeMask>>],
                  [range |-> [start |-> predictions[k].range.start,
                              end |-> predictions[k].range.start],
                   prio |-> 2, text |-> <<"/*">> \o predictions[k].text \o <<"*/">>]>>])
        \o [k \in 1..Len(errors) |->
                [range |-> [start |-> errors[k].pos, end |-> errors[k].pos],
                 prio |-> 3, text |-> <<"/*", "error:">> \o errors[k].msg \o <<"*/">>]]

(* replace_strs_by_pos(code, replaces) of spot.utils: the replacements are
   applied from left to right, those that start at one position in the
   order of their priorities; a replacement that starts before the end of
   the one before it adds its text behind it. *)
Before(a, b) ==
    \/ a.range.start < b.range.start
    \/ a.range.start = b.range.start /\ a.prio <= b.prio

RECURSIVE SortedReplaces(_)
SortedReplaces(reps) ==
    IF reps = <<>> THEN <<>>
    ELSE LET x == reps[Len(reps)]
             rest == SortedReplaces(SubSeq(reps, 1, Len(reps) - 1))
             n == Cardinality({i \in 1..Len(rest) : Before(rest[i], x)})
         IN SubSeq(rest, 1, n) \o <<x>> \o SubSeq(rest, n + 1, Len(rest))

RECURSIVE ApplyReplaces(_, _, _, _)
ApplyReplaces(code, reps, k, ptr) ==
    IF k > Len(reps) THEN SubSeq(code, ptr, Len(code))
    ELSE LET r == reps[k]
             p1 == Max(ptr, r.range.start)
         IN SubSeq(code, ptr, r.range.start - 1) \o r.text
                \o ApplyReplaces(code, reps, k + 1, Max(p1, r.range.end))

replace_strs_by_pos(code, replaces) == ApplyReplaces(code, SortedReplaces(replaces), 1, 1)

(* patch_code_with_extra(code, predictions, errors) *)
patch_code_with_extra(code, predictions, errors) ==
    replace_strs_by_pos(code, patch_replaces(predictions, errors))

(* new_code.split(SpecialNames.TypeMask) *)
RECURSIVE Split(_, _)
Split(code, sep) ==
    IF \A p \in 1..Len(code) : code[p] # sep THEN <<code>>
    ELSE LET p == CHOOSE q \in 1..Len(code) :
                        code[q] = sep /\ \A o \in 1..(q - 1) : code[o] # sep
         IN <<SubSeq(code, 1, p - 1)>> \o Split(SubSeq(code, p + 1, Len(code)), sep)

(* feedbacks_to_tokenized_src, line 234: the id of the label with this
   path; a later label of the same path replaces an earlier one. *)
path2label_id(src, path) ==
    CHOOSE i \in 1..Len(src.types_info) :
        /\ src.types_info[i].path = path
        /\ \A j \in 1..Len(src.types_info) : src.types_info[j].path = path => j <= i

(* feedbacks_to_tokenized_src, line 237: a.path in path2label_id *)
IsLabelPath(src, path) == \E i \in 1..Len(src.types_info) : src.types_info[i].path = path

(* feedbacks_to_tokenized_src, lines 242-243: the type and the type string
   recorded for the annotation a. *)
LabelType(src, a) == src.types[path2label_id(src, a.path)]

LabelTypeStrMutantPredicted(src, a) == a.text

LabelTypeStr(src, a) == src.types_str[path2label_id(src, a.path)]

(* _TokenizedSrcHelper.feedbacks_to_tokenized_src(src, current_code,
   feedbacks): the TokenizedSrc, or the exception raised.  The text is given
   by its items and by whether the parsed module renders to the same
   text. *)
feedbacks_to_tokenized_src(src, text, feedbacks) ==
    LET current_code == CodeOf(text.items)
        current_annots == collect_user_annotations(text.items)
        kept == SelectSeq(current_annots, LAMBDA a : IsLabelPath(src, a.path))
        preds_map == [k \in 1..Len(kept) |->
                            [range |-> kept[k].annot_range, text |-> kept[k].text]]
        new_code == patch_code_with_extra(current_code, preds_map, feedbacks)
        d == [code_segs |-> Split(new_code, TypeMask),
              types |-> [k \in 1..Len(kept) |-> LabelType(src, kept[k])],
              types_str |-> [k \in 1..Len(kept) |-> LabelTypeStr(src, kept[k])],
              annots_info |-> kept,
              is_label |-> [kind |-> "None", flags |-> <<>>]]
    IN IF ~Parses(current_code)
       THEN [status |-> "RuntimeError"]
       ELSE IF ~text.renders_same
       THEN [status |-> "AssertionError", line |-> 226]
       ELSE IF Len(d.code_segs) # Len(d.types) + 1
       THEN [status |-> "AssertionError", line |-> 247]
       ELSE [status |-> "ok", new_code |-> new_code, preds_map |-> preds_map, d |-> d,
             src |-> dict_to_tokenized_src(d)]

---------------------------------------------------------------------------
(* SrcDataset.add_type_checker_feedback and type_check_src of
   src/src/spot/data.py.  The type checker is an external collaborator: for
   each file it answers with an opaque failure string or with the
   diagnostics of the files it checked. *)

(* type_check_src, lines 597-606: the feedback made of the answer of
   MypyChecker.check_code; a diagnostic is a pair of a position and a
   message. *)
type_check_src(answer, text) ==
    IF answer.kind = "str"
    THEN [status |-> "ok", feedback |-> [kind |-> "str", errors |-> <<>>], new_code |-> text]
    ELSE IF Len(answer.error_dict) = 0
    THEN [status |-> "ok", feedback |-> [kind |-> "dict", errors |-> <<>>], new_code |-> text]
    ELSE IF Len(answer.error_dict) # 1
    THEN [status |-> "AssertionError"]
    ELSE [status |-> "ok", feedback |-> [kind |-> "dict", errors |-> answer.error_dict[1]],
          new_code |-> text]

(* add_type_checker_feedback, lines 430-442: n_checked after the loop. *)
CountCheckedMutantAll(check_rs) == Len(check_rs)

CountChecked(check_rs) ==
    Cardinality({i \in 1..Len(check_rs) : check_rs[i].feedback.kind # "str"})

(* add_type_checker_feedback, lines 436-437 and 441: the errors handed to
   feedbacks_to_tokenized_src. *)
FeedbackOf(check_r) == IF check_r.feedback.kind = "str" THEN <<>> ELSE check_r.feedback.errors

(* add_type_checker_feedback(tokenizer, file2preds, ...) is called for the
   files of src_list. *)
NewPatching(src_list) ==
    [pc |-> "type_check", src_list |-> src_list, check_rs |-> <<>>, n_checked |-> 0,
     feedback_list |-> <<>>, n_error_list |-> <<>>, new_srcs |-> <<>>,
     num_type_checked |-> "none", all_srcs |-> <<>>]

PatchIdle == <<cfg, mainPc, taskPc, sem, waiters, rs, fut, model_queue, mrun, replay_buffer,
      grad_counter, save_counter, params, n_saves, log_lock, labels_counter, pushed,
      trained, updates, done_order, results, trace, chunking, building, decoding, loading,
      eval_result>>

(* What the type checker may answer for a text: a failure string, or the
   diagnostics of no file, of the file (up to MaxErrors at different
   positions of the text) or of two files. *)
Diagnostics(code) ==
    {<<>>}
        \cup {<<[pos |-> p, msg |-> <<"e">>]>> : p \in 1..Len(code)}
        \cup {<<[pos |-> pq[1], msg |-> <<"e">>], [pos |-> pq[2], msg |-> <<"f">>]>> :
                    pq \in {x \in (1..Len(code)) \X (1..Len(code)) :
                                    x[1] # x[2] /\ MaxErrors >= 2}}

CheckerAnswers(code) ==
    {[kind |-> "str", error_dict |-> <<>>],
     [kind |-> "errors", error_dict |-> <<>>],
     [kind |-> "errors", error_dict |-> <<<<>>, <<>>>>]}
        \cup {[kind |-> "errors", error_dict |-> <<es>>] : es \in Diagnostics(code) \ {<<>>}}

(* add_type_checker_feedback, lines 417-429: type_check_src on the next
   file; an exception of it ends the pass. *)
TypeCheckSrc ==
    /\ patching.pc = "type_check"
    /\ Len(patching.check_rs) < Len(patching.src_list)
    /\ LET text == patching.src_list[Len(patching.check_rs) + 1].text IN
       \E answer \in CheckerAnswers(CodeOf(text.items)) :
            LET r == type_check_src(answer, text)
            IN patching' = [patching EXCEPT
                    !.check_rs = Append(@, r),
                    !.pc = IF r.status = "ok" THEN @ ELSE "raised"]
    /\ UNCHANGED PatchIdle

(* add_type_checker_feedback, lines 430-450: the loop over the answers and
   the statistics of the result. *)
CollectFeedbacks ==
    /\ patching.pc = "type_check"
    /\ Len(patching.check_rs) = Len(patching.src_list)
    /\ patching' = [patching EXCEPT
            !.pc = "patch",
            !.n_checked = CountChecked(patching.check_rs),
            !.feedback_list = [i \in 1..Len(patching.check_rs) |->
                                    FeedbackOf(patching.check_rs[i])],
            !.n_error_list = [i \in 1..Len(patching.check_rs) |->
                                    Len(FeedbackOf(patching.check_rs[i]))],
            !.num_type_checked = CountChecked(patching.check_rs)]
    /\ UNCHANGED PatchIdle

(* add_type_checker_feedback, lines 453-463: feedbacks_to_tokenized_src on
   the next file; an exception of it ends the pass. *)
PatchSrc ==
    /\ patching.pc = "patch"
    /\ Len(patching.new_srcs) < Len(patching.src_list)
    /\ LET i == Len(patching.new_srcs) + 1
           r == feedbacks_to_tokenized_src(patching.src_list[i].src,
                                           patching.check_rs[i].new_code,
                                           patching.feedback_list[i])
       IN patching' = [patching EXCEPT
                !.new_srcs = Append(@, r),
                !.pc = IF r.status = "ok" THEN @ ELSE "raised"]
    /\ UNCHANGED PatchIdle

(* add_type_checker_feedback, lines 464-465 *)
ReturnPatched ==
    /\ patching.pc = "patch"
    /\ Len(patching.new_srcs) = Len(patching.src_list)
    /\ patching' = [patching EXCEPT !.pc = "returned", !.all_srcs = patching.new_srcs]
    /\ UNCHANGED PatchIdle

(* The sources of the round before: up to MaxTypes labels with paths from
   0..1 in source order, each with its type and one of its annotation
   texts. *)
PrevLabels ==
    {[path |-> p, type |-> ty, str |-> st] : p \in 0..1, ty \in PyTypes,
                                              st \in UNION {AnnotTexts(t) : t \in PyTypes}}

PrevSrcs ==
    {[file |-> 0, types |-> [k \in 1..Len(ls) |-> ls[k].type],
      types_str |-> [k \in 1..Len(ls) |-> ls[k].str],
      types_info |-> [k \in 1..Len(ls) |-> [path |-> ls[k].path]]] :
        ls \in {l \in UNION {[1..n -> PrevLabels] : n \in 0..MaxTypes} :
                    /\ \A k \in 1..Len(l) : l[k].str \in AnnotTexts(l[k].type)
                    /\ \A k \in 1..(Len(l) - 1) : l[k].path < l[k + 1].path}}

(* The checked texts: up to MaxItems items, each the word x or an
   annotation of a path of 0..MaxPath, no path twice; and some texts with a
   syntax error, with the name of the mask, or that the parsed module
   renders otherwise. *)
PredictedText(path) == IF path = 1 THEN <<"str", "[]">> ELSE <<"int">>

PlainItems == {Word("x")} \cup {Annot(p, PredictedText(p)) : p \in 0..MaxPath}

PlainTexts ==
    {[items |-> it, renders_same |-> TRUE] :
        it \in {s \in UNION {[1..n -> PlainItems] : n \in 0..MaxItems} :
                    \A i, j \in 1..Len(s) :
                        (s[i].kind = "annot" /\ s[j].kind = "annot" /\ i # j)
                            => s[i].path # s[j].path}}

OddTexts ==
    {[items |-> <<Annot(0, <<"int">>), Word("?")>>, renders_same |-> TRUE],
     [items |-> <<Word("?")>>, renders_same |-> FALSE],
     [items |-> <<Annot(0, <<"int">>), Word("x")>>, renders_same |-> FALSE],
     [items |-> <<Annot(0, <<"int">>), Word(TypeMask)>>, renders_same |-> TRUE],
     [items |-> <<Word(TypeMask), Annot(1, <<"int">>)>>, renders_same |-> TRUE]}

(* The passes: one file with any source and text, or two files of few. *)
FewSrcs == {s \in PrevSrcs : \A k \in 1..Len(s.types) : s.types_str[k] = <<"Text">>}

FewTexts ==
    {[items |-> <<Annot(0, <<"int">>)>>, renders_same |-> TRUE],
     [items |-> <<Word("?")>>, renders_same |-> TRUE]}

SrcLists ==
    {<<[src |-> s, text |-> t]>> : s \in PrevSrcs, t \in PlainTexts \cup OddTexts}
        \cup {<<[src |-> s1, text |-> t1], [src |-> s2, text |-> t2]>> :
                    s1 \in FewSrcs, s2 \in FewSrcs, t1 \in FewTexts, t2 \in FewTexts}

InitFeedback ==
    /\ cfg = [entry |-> "feedback", n_labels |-> [f \in Files |-> 0], concurrency |-> 1,
              replay_buffer_size |-> 0, grad_accum_steps |-> 1, save_every |-> 0,
              saves_per_epoch |-> 1, expert_rate |-> 0, has_callback |-> FALSE]
    /\ InitState
    /\ loading = NoLoading
    /\ chunking = NoChunking
    /\ building = NoBuilding
    /\ decoding = NoDecoding
    /\ \E src_list \in SrcLists : patching = NewPatching(src_list)

NextFeedback ==
    \/ TypeCheckSrc
    \/ CollectFeedbacks
    \/ PatchSrc
    \/ ReturnPatched

SpecFeedback == InitFeedback /\ [][NextFeedback]_vars

---------------------------------------------------------------------------
(* Properties of the feedback pass (SpecFeedback) *)

(* The files feedbacks_to_tokenized_src was called for. *)
Patched == 1..Len(patching.new_srcs)

TextOf(i) == patching.src_list[i].text

PrevSrcOf(i) == patching.src_list[i].src

HasWord(code, w) == \E p \in 1..Len(code) : code[p] = w

CountWord(code, w) == Cardinality({p \in 1..Len(code) : code[p] = w})

(* C31: a file whose type check gave a failure string is patched with no
   diagnostics: its feedback is empty, its result is that of
   feedbacks_to_tokenized_src without diagnostics, which is a new source
   without error comment whenever the text is well formed, and the failure
   does not end the pass; the file is not counted in num_type_checked,
   which counts the files with diagnostics (possibly none); and
   get_typechecked_src of a rollout drops a failure string in the same
   way. *)
C31_CheckerFailureAsNoDiagnostics ==
    /\ \A i \in 1..Len(patching.check_rs) :
        (patching.check_rs[i].status = "ok" /\ patching.check_rs[i].feedback.kind = "str") =>
            /\ i <= Len(patching.feedback_list) =>
                    patching.feedback_list[i] = <<>> /\ patching.n_error_list[i] = 0
            /\ i \in Patched =>
                /\ patching.new_srcs[i] = feedbacks_to_tokenized_src(PrevSrcOf(i), TextOf(i), <<>>)
                /\ (/\ ~HasWord(CodeOf(TextOf(i).items), "?")
                    /\ ~HasWord(CodeOf(TextOf(i).items), "SPOT_TYPE_MASK")
                    /\ TextOf(i).renders_same)
                        => /\ patching.new_srcs[i].status = "ok"
                           /\ patching.new_srcs[i].src.status = "ok"
                           /\ ~HasWord(patching.new_srcs[i].new_code, "error:")
    /\ Len(patching.feedback_list) > 0 =>
        /\ patching.num_type_checked =
                Cardinality({i \in 1..Len(patching.src_list) :
                                patching.check_rs[i].feedback.kind = "dict"})
        /\ patching.num_type_checked = patching.n_checked
    /\ patching.pc = "returned" => Len(patching.all_srcs) = Len(patching.src_list)
    /\ \A o \in CheckOutcomes : \A f \in Files :
            o.failed => get_typechecked_src(OriginalSrc(f), EmptyDict, o).errors = <<>>

(* A pass over two files has returned two sources; the check of the first
   file had failed and the second file was checked. *)
C31_Witness ==
    /\ patching.pc = "returned"
    /\ Len(patching.all_srcs) = 2
    /\ patching.check_rs[1].feedback.kind = "str"
    /\ patching.check_rs[2].feedback.kind = "dict"
    /\ Len(patching.check_rs[2].feedback.errors) = 1
    /\ patching.num_type_checked = 1
    /\ Len(patching.all_srcs[1].src.types) = 1

(* C32: feedbacks_to_tokenized_src raises, and returns no source, for a
   text with a syntax error (RuntimeError) and for a text whose parsed
   module renders to another text (AssertionError); the exception ends the
   pass. *)
C32_ParseErrorRaised ==
    \A i \in Patched :
        LET r == patching.new_srcs[i]
            bad == HasWord(CodeOf(TextOf(i).items), "?")
        IN (bad \/ ~TextOf(i).renders_same) =>
            /\ r.status = (IF bad THEN "RuntimeError" ELSE "AssertionError")
            /\ "src" \notin DOMAIN r
            /\ patching.pc = "raised"
            /\ patching.all_srcs = <<>>
            /\ i = Len(patching.new_srcs)

(* The second file of a pass has a syntax error, after the first was
   patched. *)
C32_Witness ==
    /\ patching.pc = "raised"
    /\ Len(patching.new_srcs) = 2
    /\ patching.new_srcs[1].status = "ok"
    /\ patching.new_srcs[2].status = "RuntimeError"
    /\ Len(PrevSrcOf(2).types) >= 1

(* The annotations of the text whose path is a path of a label of the
   source, in the order of the text. *)
LabelAnnots(src, items) ==
    SelectSeq(items, LAMBDA it : it.kind = "annot"
                        /\ \E k \in 1..Len(src.types_info) : src.types_info[k].path = it.path)

(* C37: the labels of the source feedbacks_to_tokenized_src returns are the
   annotations of the checked text whose path is the path of a label of
   the previous source, in the order of the text; each has the type and the
   type string of the previous label of its path, whatever the text now
   says; the patched text has one mask per label and one segment more than
   labels; and no other annotation is a label. *)
C37_LabelsByPath ==
    \A i \in Patched :
        patching.new_srcs[i].status = "ok" =>
            LET r == patching.new_srcs[i]
                prev == PrevSrcOf(i)
                found == LabelAnnots(prev, TextOf(i).items)
            IN /\ r.src.status = "ok"
               /\ Len(r.src.types) = Len(found)
               /\ Len(r.src.types_pos) = Len(found)
               /\ \A k \in 1..Len(found) :
                    /\ r.src.types_info[k].path = found[k].path
                    /\ r.src.types_info[k].text = found[k].text
                    /\ \E j \in 1..Len(prev.types) :
                        /\ prev.types_info[j].path = found[k].path
                        /\ r.src.types[k] = prev.types[j]
                        /\ r.src.types_str[k] = prev.types_str[j]
                    /\ r.src.tokenized_code[r.src.types_pos[k] + 1] = Tk("mask", 0)
               /\ CountWord(r.new_code, "SPOT_TYPE_MASK") = Len(found)
               /\ Len(r.d.code_segs) = Len(found) + 1
               /\ Cardinality({p \in 1..Len(r.src.tokenized_code) :
                                    r.src.tokenized_code[p] = Tk("mask", 0)}) = Len(found)
               /\ \A it \in {TextOf(i).items[q] : q \in 1..Len(TextOf(i).items)} :
                    (it.kind = "annot"
                        /\ \A j \in 1..Len(prev.types_info) : prev.types_info[j].path # it.path)
                    => \A k \in 1..Len(r.src.types_info) : r.src.types_info[k].path # it.path

(* A text with the annotations of paths 1, 2 and 0, in this order, was
   patched for a source with the labels of paths 0 and 1, whose type
   strings are not what the text says. *)
C37_Witness ==
    \E i \in Patched :
        /\ patching.new_srcs[i].status = "ok"
        /\ Len(TextOf(i).items) = 3
        /\ TextOf(i).items[1].kind = "annot" /\ TextOf(i).items[1].path = 1
        /\ TextOf(i).items[2].kind = "annot" /\ TextOf(i).items[2].path = 2
        /\ TextOf(i).items[3].kind = "annot" /\ TextOf(i).items[3].path = 0
        /\ PrevSrcOf(i).types = <<"str", "int">>
        /\ PrevSrcOf(i).types_str[1] = <<"Text">>
        /\ patching.new_srcs[i].src.types = <<"int", "str">>

(* The patched text, position by position: at the start of a prediction
   range the mask and then the comment with the prediction; then the
   comment of the diagnostic of the position; then the word, unless it is
   in a prediction range. *)
ExpectedPatch(code, predictions, errors) ==
    Flatten([p \in 1..Len(code) |->
        Flatten([k \in 1..Len(predictions) |->
                    IF predictions[k].range.start = p
                    THEN <<"SPOT_TYPE_MASK", "/*">> \o predictions[k].text \o <<"*/">>
                    ELSE <<>>])
            \o Flatten([k \in 1..Len(errors) |->
                    IF errors[k].pos = p
                    THEN <<"/*", "error:">> \o errors[k].msg \o <<"*/">>
                    ELSE <<>>])
            \o (IF \E k \in 1..Len(predictions) :
                        predictions[k].range.start <= p /\ p < predictions[k].range.end
                THEN <<>> ELSE <<code[p]>>)])

(* C38: in the text patch_code_with_extra returns, every prediction range
   is replaced by one mask followed by one comment with the prediction,
   every diagnostic adds one error comment at its position, and where a
   diagnostic is at the start of a prediction range the order is mask,
   prediction comment, error comment; the other words are kept. *)
C38_PatchPriorityOrder ==
    \A i \in Patched :
        patching.new_srcs[i].status = "ok" =>
            LET r == patching.new_srcs[i]
                code == CodeOf(TextOf(i).items)
                errors == patching.feedback_list[i]
            IN /\ r.new_code = ExpectedPatch(code, r.preds_map, errors)
               /\ CountWord(r.new_code, "SPOT_TYPE_MASK") = Len(r.preds_map)
               /\ CountWord(r.new_code, "error:") = Len(errors)
               /\ CountWord(r.new_code, "/*") = Len(r.preds_map) + Len(errors)
               /\ CountWord(r.new_code, "*/") = Len(r.preds_map) + Len(errors)

(* A text was patched with a diagnostic at the start of the range of a
   prediction of two words, and with another diagnostic behind it. *)
C38_Witness ==
    \E i \in Patched :
        /\ patching.new_srcs[i].status = "ok"
        /\ Len(patching.feedback_list[i]) = 2
        /\ \E k \in 1..Len(patching.new_srcs[i].preds_map) :
            LET range == patching.new_srcs[i].preds_map[k].range IN
            /\ range.end = range.start + 2
            /\ patching.feedback_list[i][2].pos = range.start
            /\ patching.feedback_list[i][1].pos > range.start

---------------------------------------------------------------------------
(* SrcDataset.from_repos and mask_type_annots of src/src/spot/data.py.  A
   file is a text as above; its width is its number of words.  The module
   of a parsed text is its items; apply_annotations writes the name of the
   mask over every annotation. *)

MaxRepoFiles == 2
MaxLineWidth == 3

(* mask_type_annots, lines 676-680: apply_annotations(m, replaces).code *)
MaskedCode(items) ==
    CodeOf([i \in 1..Len(items) |->
                IF items[i].kind = "annot" THEN Word(TypeMask) ELSE items[i]])

(* mask_type_annots, lines 662-669: only cst.ParserSyntaxError is caught. *)
Caught(error) == error = "ParserSyntaxError"

(* mask_type_annots((src_path, code), drop_comments): the dict, None, or
   the exception that leaves it. *)
mask_type_annots(text) ==
    LET annots_info == collect_user_annotations(text.items)
        code_segs == Split(MaskedCode(text.items), TypeMask)
        error == IF ~Parses(CodeOf(text.items)) THEN "ParserSyntaxError"
                 ELSE IF Len(code_segs) # Len(annots_info) + 1 THEN "AssertionError"
                 ELSE "none"
    IN IF error # "none"
       THEN (IF Caught(error) THEN [status |-> "None"] ELSE [status |-> error])
       ELSE [status |-> "ok",
             code_segs |-> code_segs,
             types |-> [k \in 1..Len(annots_info) |-> parse_type(annots_info[k].text)],
             types_str |-> [k \in 1..Len(annots_info) |-> annots_info[k].text],
             annots_info |-> annots_info]

(* from_repos(repos_root, repos_paths, ...) is called; files are the
   texts of the *.py files found. *)
NewLoading(files, max_line_width) ==
    [pc |-> "read", files |-> files, max_line_width |-> max_line_width, srcs |-> <<>>,
     stats |-> <<>>, masked_srcs |-> <<>>, filtered_srcs |-> <<>>, tk_srcs |-> <<>>,
     all_srcs |-> <<>>]

LoadIdle == <<cfg, mainPc, taskPc, sem, waiters, rs, fut, model_queue, mrun, replay_buffer,
      grad_counter, save_counter, params, n_saves, log_lock, labels_counter, pushed,
      trained, updates, done_order, results, trace, chunking, building, decoding, patching,
      eval_result>>

(* from_repos, lines 486-511: the files no wider than max_line_width and
   the statistics; the ratio divides by the number of files. *)
ReadFiles ==
    /\ loading.pc = "read"
    /\ LET kept == SelectSeq([i \in 1..Len(loading.files) |-> i],
                        LAMBDA i : Len(CodeOf(loading.files[i].items)) <= loading.max_line_width)
       IN loading' = [loading EXCEPT
                !.srcs = kept,
                !.stats = IF Len(loading.files) = 0 THEN <<>>
                          ELSE [n_files_too_wide |-> Len(loading.files) - Len(kept)],
                !.pc = IF Len(loading.files) = 0 THEN "raised" ELSE "mask"]
    /\ UNCHANGED LoadIdle

(* from_repos, lines 512-520: mask_type_annots on the next file; an
   exception of it ends from_repos. *)
MaskFile ==
    /\ loading.pc = "mask"
    /\ Len(loading.masked_srcs) < Len(loading.srcs)
    /\ LET x == mask_type_annots(loading.files[loading.srcs[Len(loading.masked_srcs) + 1]])
       IN loading' = [loading EXCEPT
                !.masked_srcs = Append(@, x),
                !.pc = IF x.status \in {"ok", "None"} THEN @ ELSE "raised"]
    /\ UNCHANGED LoadIdle

(* from_repos, lines 521-535: the files that gave a dict, each with a
   random list of is_label flags and its file. *)
FilterMasked ==
    /\ loading.pc = "mask"
    /\ Len(loading.masked_srcs) = Len(loading.srcs)
    /\ LET kept == SelectSeq([i \in 1..Len(loading.masked_srcs) |-> i],
                             LAMBDA i : loading.masked_srcs[i].status = "ok")
       IN \E flags \in [1..Len(kept) -> UNION {[1..n -> BOOLEAN] : n \in 0..MaxItems}] :
            /\ \A k \in 1..Len(kept) :
                    Len(flags[k]) = Len(loading.masked_srcs[kept[k]].types)
            /\ loading' = [loading EXCEPT
                    !.pc = "build",
                    !.filtered_srcs = [k \in 1..Len(kept) |->
                        [file |-> loading.srcs[kept[k]],
                         code_segs |-> loading.masked_srcs[kept[k]].code_segs,
                         types |-> loading.masked_srcs[kept[k]].types,
                         types_str |-> loading.masked_srcs[kept[k]].types_str,
                         annots_info |-> loading.masked_srcs[kept[k]].annots_info,
                         is_label |-> [kind |-> "list", flags |-> flags[k]]]]]
    /\ UNCHANGED LoadIdle

(* from_repos, lines 537-545: dict_to_tokenized_src on the next dict. *)
BuildFile ==
    /\ loading.pc = "build"
    /\ Len(loading.tk_srcs) < Len(loading.filtered_srcs)
    /\ LET d == loading.filtered_srcs[Len(loading.tk_srcs) + 1]
           r == dict_to_tokenized_src(d)
       IN loading' = [loading EXCEPT
                !.tk_srcs = Append(@, [file |-> d.file, src |-> r]),
                !.pc = IF r.status = "ok" THEN @ ELSE "raised"]
    /\ UNCHANGED LoadIdle

(* from_repos, lines 547-551 *)
ReturnLoaded ==
    /\ loading.pc = "build"
    /\ Len(loading.tk_srcs) = Len(loading.filtered_srcs)
    /\ loading' = [loading EXCEPT !.pc = "returned", !.all_srcs = loading.tk_srcs]
    /\ UNCHANGED LoadIdle

(* The files of the repositories: texts without and with annotations, a
   text with a syntax error, a text that holds the name of the mask, a text
   wider than MaxLineWidth. *)
RepoTexts ==
    {[items |-> it, renders_same |-> TRUE] :
        it \in {<<>>,
                <<Word("x")>>,
                <<Annot(0, <<"int">>), Word("y")>>,
                <<Annot(0, <<"Text">>), Annot(1, <<"str", "[]">>)>>,
                <<Annot(0, <<"int">>), Word("?")>>,
                <<Word(TypeMask), Annot(0, <<"int">>)>>,
                [i \in 1..(MaxLineWidth + 1) |-> Word("x")]}}

InitRepos ==
    /\ cfg = [entry |-> "from_repos", n_labels |-> [f \in Files |-> 0], concurrency |-> 1,
              replay_buffer_size |-> 0, grad_accum_steps |-> 1, save_every |-> 0,
              saves_per_epoch |-> 1, expert_rate |-> 0, has_callback |-> FALSE]
    /\ InitState
    /\ patching = NoPatching
    /\ chunking = NoChunking
    /\ building = NoBuilding
    /\ decoding = NoDecoding
    /\ \E files \in UNION {[1..n -> RepoTexts] : n \in 0..MaxRepoFiles},
          width \in (MaxLineWidth - 1)..MaxLineWidth :
            loading = NewLoading(files, width)

NextRepos ==
    \/ ReadFiles
    \/ MaskFile
    \/ FilterMasked
    \/ BuildFile
    \/ ReturnLoaded

SpecRepos == InitRepos /\ [][NextRepos]_vars

(* The files of a kind: with a syntax error, with as many segments as the
   name of the mask cuts (a format error), too wide. *)
SyntaxErrorFiles ==
    {i \in 1..Len(loading.files) : \E p \in 1..Len(loading.files[i].items) :
            loading.files[i].items[p] = Word("?")}

FormatErrorFiles ==
    {i \in 1..Len(loading.files) : \E p \in 1..Len(loading.files[i].items) :
            loading.files[i].items[p] = Word("SPOT_TYPE_MASK")} \ SyntaxErrorFiles

TooWideFiles ==
    {i \in 1..Len(loading.files) :
        Len(CodeOf(loading.files[i].items)) > loading.max_line_width}

(* C33: from_repos of at least one file does not fail; it returns one
   source for every file that is not too wide and has neither a syntax
   error nor a format error, and no other; and its statistics hold the
   number of the files dropped for an error. *)
C33_ErrorsDroppedPerFile ==
    (loading.pc \in {"raised", "returned"} /\ Len(loading.files) > 0) =>
        LET bad == (SyntaxErrorFiles \cup FormatErrorFiles) \ TooWideFiles
            good == (1..Len(loading.files)) \ (SyntaxErrorFiles \cup FormatErrorFiles
                                                    \cup TooWideFiles)
        IN /\ loading.pc = "returned"
           /\ {loading.all_srcs[k].file : k \in 1..Len(loading.all_srcs)} = good
           /\ Len(loading.all_srcs) = Cardinality(good)
           /\ \A k \in 1..Len(loading.all_srcs) : loading.all_srcs[k].src.status = "ok"
           /\ \E name \in DOMAIN loading.stats :
                    name # "n_files_too_wide" /\ loading.stats[name] = Cardinality(bad)

====
